---------------------------- MODULE Spec2Model ----------------------------
(***************************************************************************)
(* A model of the Chakravyuha obfuscation passes: control-flow flattening  *)
(* (demoteValuesToMemory, buildNextStateForTerm, flattenFunction, run) and *)
(* string encryption (encryptString, injectDecryptionStub, run).           *)
(*                                                                         *)
(* The repository holds two versions of each pass.  The variable `ver`     *)
(* says which one a behaviour runs:                                        *)
(*   "chakra"     ChakraPasses (src/unnamed/part_005, src/unnamed/part_000)*)
(*   "standalone" ControlFlowFlatteningPass/ControlFlowFlatteningPass.cpp  *)
(*                and BasicStringEncryptionPass/StringEncryptionPass.cpp   *)
(***************************************************************************)
EXTENDS Integers, Sequences, FiniteSets, TLC

VARIABLES
    ver,        \* which version of the passes runs
    M0,         \* the module's functions as the host handed them to the pass
    M,          \* the module's functions as they are now
    pc,         \* position of ControlFlowFlatteningPass::run: "loop" / "done"
    idx,        \* the function the loop of run is at
    flat,       \* per function: whether flattenFunction was called, what it
                \* returned, and the function as demoteValuesToMemory left it
    Changed,    \* run's local Changed
    flattenedFunctions,
    flattenedBlocks,
    skippedFunctions,
    errs,       \* the functions run reported as failing verification
    PA,         \* run's result: "none" / "all" ("" while running)
    SM0,        \* string encryption: the module as the host handed it over
    SM,         \* the module as it is now
    gepKind,    \* whether the builder leaves the address computation of a
                \* decrypt call's source an instruction ("inst") or folds
                \* it into a constant expression ("const")
    runs,       \* one record per run of StringEncryptionPass::run so far
    stub,       \* a call of chakravyuha_decrypt_string: the block it is in,
                \* its index phi, its arguments and the memory it works on
    FM0,        \* fake-code insertion: the functions as handed to the pass
    FM,         \* the functions as they are now
    fk,         \* the position and the locals of FakeCodeInsertionPass::run
                \* and of addFakeCodeToFunction
    Report,     \* chakravyuha::ReportData::get(), the process-wide report
    mc          \* the position and the locals of MultiCycleObfuscationPass::run

sevars == <<SM0, SM, gepKind, runs>>

cffvars == <<M0, M, pc, idx, flat, Changed, flattenedFunctions,
             flattenedBlocks, skippedFunctions, errs, PA>>

stubvars == <<stub>>

mcvars == <<FM0, FM, fk, Report, mc>>

-----------------------------------------------------------------------------
(* Bounds of the model *)

MaxArg == 2         \* the argument of an executed function ranges over 0..MaxArg
MaxVisits == 6      \* an execution is followed for this many block visits
MaxBlocks == 3      \* control-flow graphs of 2..MaxBlocks blocks are generated
MaxLen == 2         \* a string has 1..MaxLen bytes
MaxRuns == 2        \* string encryption runs up to MaxRuns times on a module
MaxStubLen == 3     \* the decrypt stub is called with a length up to MaxStubLen
MaxCycles == 2      \* the multi-cycle pass is made with 0..MaxCycles cycles
MaxWork == 4        \* cycles times candidate blocks of the module handed over

-----------------------------------------------------------------------------
(* IR: operands, instructions, blocks, functions *)

Range(s) == {s[i] : i \in DOMAIN s}

ConstOp(v) == [k |-> "c", v |-> v]      \* a constant integer
InstOp(id) == [k |-> "i", v |-> id]     \* the value of instruction id
ArgOp == [k |-> "a", v |-> 0]           \* the function's argument
UndefOp == [k |-> "u", v |-> 0]         \* UndefValue

\* An instruction: ops are its operands; bbs its block operands (successors
\* of a terminator, incoming blocks of a phi).  A switch's ops are
\* <<condition, case value 1, ...>> and bbs <<default, successor 1, ...>>.
Inst(id, op, ops, bbs) == [id |-> id, op |-> op, ops |-> ops, bbs |-> bbs]

Block(name, insts) == [name |-> name, insts |-> insts, ehpad |-> FALSE]

Terminators == {"br", "condbr", "switch", "ret", "unreachable",
                "indirectbr", "callbr", "invoke"}

isTerminator(I) == I.op \in Terminators

BlockNames(Fn) == {Fn.blocks[i].name : i \in DOMAIN Fn.blocks}
BlockIdx(Fn, name) == CHOOSE i \in DOMAIN Fn.blocks : Fn.blocks[i].name = name
GetBlock(Fn, name) == Fn.blocks[BlockIdx(Fn, name)]
InstsOf(Fn) == UNION {Range(Fn.blocks[i].insts) : i \in DOMAIN Fn.blocks}
HasInst(Fn, id) == \E I \in InstsOf(Fn) : I.id = id
GetInst(Fn, id) == CHOOSE I \in InstsOf(Fn) : I.id = id
ParentIdx(Fn, id) ==
    CHOOSE i \in DOMAIN Fn.blocks : \E j \in DOMAIN Fn.blocks[i].insts :
        Fn.blocks[i].insts[j].id = id
getParent(Fn, id) == Fn.blocks[ParentIdx(Fn, id)].name
PosIn(insts, id) == CHOOSE j \in DOMAIN insts : insts[j].id = id
getEntryBlock(Fn) == Fn.blocks[1]

\* BasicBlock::getTerminator: the last instruction when it is a terminator.
HasTerminator(B) == Len(B.insts) > 0 /\ isTerminator(B.insts[Len(B.insts)])
getTerminator(B) == B.insts[Len(B.insts)]

\* BasicBlock::getFirstInsertionPt: the first instruction that is not a phi.
FirstNonPhiPos(insts) ==
    IF \E j \in DOMAIN insts : insts[j].op # "phi"
    THEN CHOOSE j \in DOMAIN insts :
            insts[j].op # "phi" /\ \A k \in 1..(j-1) : insts[k].op = "phi"
    ELSE Len(insts) + 1

InsertAt(s, j, x) == SubSeq(s, 1, j-1) \o <<x>> \o SubSeq(s, j, Len(s))
RemoveAt(s, j) == SubSeq(s, 1, j-1) \o SubSeq(s, j+1, Len(s))

SetInsts(Fn, bi, insts) ==
    [Fn EXCEPT !.blocks[bi].insts = insts]

\* IRBuilder with its insertion point at instruction `anchor`: the new
\* instruction goes immediately before it.
InsertBefore(Fn, anchor, I) ==
    LET bi == ParentIdx(Fn, anchor)
        insts == Fn.blocks[bi].insts
    IN  [SetInsts(Fn, bi, InsertAt(insts, PosIn(insts, anchor), I))
            EXCEPT !.next = Fn.next + 1]

\* IRBuilder::SetInsertPoint(parent, ++I->getIterator())
InsertAfter(Fn, anchor, I) ==
    LET bi == ParentIdx(Fn, anchor)
        insts == Fn.blocks[bi].insts
    IN  [SetInsts(Fn, bi, InsertAt(insts, PosIn(insts, anchor) + 1, I))
            EXCEPT !.next = Fn.next + 1]

\* IRBuilder(BB): append at the end of the block.
InsertAtEnd(Fn, name, I) ==
    LET bi == BlockIdx(Fn, name)
    IN  [SetInsts(Fn, bi, Append(Fn.blocks[bi].insts, I))
            EXCEPT !.next = Fn.next + 1]

\* IRBuilder(BB, BB->getFirstInsertionPt())
InsertAtFirstInsertionPt(Fn, name, I) ==
    LET bi == BlockIdx(Fn, name)
        insts == Fn.blocks[bi].insts
    IN  [SetInsts(Fn, bi, InsertAt(insts, FirstNonPhiPos(insts), I))
            EXCEPT !.next = Fn.next + 1]

eraseFromParent(Fn, id) ==
    LET bi == ParentIdx(Fn, id)
        insts == Fn.blocks[bi].insts
    IN  SetInsts(Fn, bi, RemoveAt(insts, PosIn(insts, id)))

\* Use::set
SetOperand(Fn, user, k, op) ==
    LET bi == ParentIdx(Fn, user)
        insts == Fn.blocks[bi].insts
        j == PosIn(insts, user)
    IN  [Fn EXCEPT !.blocks[bi].insts[j].ops[k] = op]

\* The uses of instruction id: <<user, operand index>> pairs, in program order.
RECURSIVE OperandUses(_, _, _)
OperandUses(I, id, k) ==
    IF k > Len(I.ops) THEN <<>>
    ELSE (IF I.ops[k] = InstOp(id) THEN <<<<I.id, k>>>> ELSE <<>>)
         \o OperandUses(I, id, k + 1)

RECURSIVE InstsUses(_, _, _)
InstsUses(insts, id, j) ==
    IF j > Len(insts) THEN <<>>
    ELSE OperandUses(insts[j], id, 1) \o InstsUses(insts, id, j + 1)

RECURSIVE BlocksUses(_, _, _)
BlocksUses(Fn, id, i) ==
    IF i > Len(Fn.blocks) THEN <<>>
    ELSE InstsUses(Fn.blocks[i].insts, id, 1) \o BlocksUses(Fn, id, i + 1)

uses(Fn, id) == BlocksUses(Fn, id, 1)

\* The instructions of a function in block order, as a sequence.
RECURSIVE InstSeqFrom(_, _)
InstSeqFrom(Fn, i) ==
    IF i > Len(Fn.blocks) THEN <<>>
    ELSE Fn.blocks[i].insts \o InstSeqFrom(Fn, i + 1)
InstSeq(Fn) == InstSeqFrom(Fn, 1)

successors(B) == IF HasTerminator(B) THEN Range(getTerminator(B).bbs) ELSE {}


-----------------------------------------------------------------------------
(* Execution of a function on one argument.  Values are naturals; Undef is  *)
(* the content of an uninitialised slot and the value of UndefValue.  An    *)
(* execution that branches on Undef, or uses a pointer that is Undef, has   *)
(* undefined behaviour: status "ub".                                        *)

Undef == -1

Eval(op, regs, arg) ==
    CASE op.k = "c" -> op.v
      [] op.k = "i" -> regs[op.v]
      [] op.k = "a" -> arg
      [] OTHER -> Undef

\* The value a phi takes when its block is entered from block prev.
PhiValue(I, prev, regs, arg) ==
    IF \E k \in DOMAIN I.bbs : I.bbs[k] = prev
    THEN Eval(I.ops[CHOOSE k \in DOMAIN I.bbs : I.bbs[k] = prev], regs, arg)
    ELSE Undef

\* The target of a switch for condition value c.
SwitchTarget(I, c) ==
    IF \E k \in 2..Len(I.ops) : I.ops[k].v = c
    THEN I.bbs[CHOOSE k \in 2..Len(I.ops) : I.ops[k].v = c]
    ELSE I.bbs[1]

DispatchName == "cff.dispatch"
DefaultName == "cff.default"

ExecInit(Fn) ==
    [bb |-> Fn.blocks[1].name, i |-> 1, prev |-> "", status |-> "run",
     regs |-> [id \in 0..(Fn.next - 1) |-> Undef],
     mem |-> [id \in 0..(Fn.next - 1) |-> Undef],
     out |-> <<>>, trace |-> <<Fn.blocks[1].name>>, hops |-> 0, rv |-> Undef]

\* Transfer of control to block t: the phis at the head of t all read the
\* registers as they are on the edge.
Goto(Fn, st, t, arg) ==
    IF t \notin BlockNames(Fn) THEN [st EXCEPT !.status = "stuck"]
    ELSE IF t = DispatchName /\ st.hops > 2 * MaxVisits
         THEN [st EXCEPT !.status = "fuel"]
    ELSE IF t # DispatchName /\ Len(st.trace) >= MaxVisits
         THEN [st EXCEPT !.status = "fuel"]
    ELSE
      LET insts == GetBlock(Fn, t).insts
          np == FirstNonPhiPos(insts)
          phis == {insts[j].id : j \in 1..(np - 1)}
      IN  [st EXCEPT
             !.prev = st.bb, !.bb = t, !.i = np,
             !.hops = IF t = DispatchName THEN st.hops + 1 ELSE st.hops,
             !.trace = IF t = DispatchName THEN st.trace
                       ELSE Append(st.trace, t),
             !.regs = [id \in DOMAIN st.regs |->
                         IF id \in phis
                         THEN PhiValue(GetInst(Fn, id), st.bb, st.regs, arg)
                         ELSE st.regs[id]]]

\* One instruction.
ExecStep(Fn, st, arg) ==
    LET insts == GetBlock(Fn, st.bb).insts IN
    IF st.i > Len(insts) THEN [st EXCEPT !.status = "stuck"]
    ELSE
    LET I == insts[st.i]
        v(k) == Eval(I.ops[k], st.regs, arg)
        next == [st EXCEPT !.i = st.i + 1]
        set(x) == [next EXCEPT !.regs[I.id] = x]
    IN  CASE I.op = "phi" -> set(PhiValue(I, st.prev, st.regs, arg))
          [] I.op = "alloca" -> [set(I.id) EXCEPT !.mem[I.id] = Undef]
          [] I.op = "load" ->
                IF v(1) = Undef THEN [st EXCEPT !.status = "ub"]
                ELSE set(st.mem[v(1)])
          [] I.op = "store" ->
                IF v(2) = Undef THEN [st EXCEPT !.status = "ub"]
                ELSE [next EXCEPT !.mem[v(2)] = v(1)]
          [] I.op = "add" ->
                set(IF v(1) = Undef \/ v(2) = Undef THEN Undef ELSE v(1) + v(2))
          [] I.op = "icmp_eq" ->
                set(IF v(1) = Undef \/ v(2) = Undef THEN Undef
                    ELSE IF v(1) = v(2) THEN 1 ELSE 0)
          [] I.op = "icmp_slt" ->
                set(IF v(1) = Undef \/ v(2) = Undef THEN Undef
                    ELSE IF v(1) < v(2) THEN 1 ELSE 0)
          [] I.op = "select" ->
                set(IF v(1) = Undef THEN Undef
                    ELSE IF v(1) # 0 THEN v(2) ELSE v(3))
          [] I.op = "call" -> [next EXCEPT !.out = Append(st.out, v(1))]
          [] I.op = "br" -> Goto(Fn, st, I.bbs[1], arg)
          [] I.op = "condbr" ->
                IF v(1) = Undef THEN [st EXCEPT !.status = "ub"]
                ELSE Goto(Fn, st, IF v(1) # 0 THEN I.bbs[1] ELSE I.bbs[2], arg)
          [] I.op = "switch" ->
                IF v(1) = Undef THEN [st EXCEPT !.status = "ub"]
                ELSE Goto(Fn, st, SwitchTarget(I, v(1)), arg)
          [] I.op = "ret" ->
                [st EXCEPT !.status = "ret",
                           !.rv = IF Len(I.ops) = 0 THEN 0 ELSE v(1)]
          [] I.op = "unreachable" -> [st EXCEPT !.status = "unreachable"]
          [] OTHER -> [st EXCEPT !.status = "stuck"]

RECURSIVE ExecFrom(_, _, _)
ExecFrom(Fn, st, arg) ==
    IF st.status # "run" THEN st ELSE ExecFrom(Fn, ExecStep(Fn, st, arg), arg)

\* What an execution shows: the blocks visited in order (passes through the
\* dispatcher left out), the values handed to calls, how it ended and with
\* what returned value.
Observe(Fn, arg) ==
    LET st == ExecFrom(Fn, ExecInit(Fn), arg)
    IN  [trace |-> st.trace, out |-> st.out, status |-> st.status, rv |-> st.rv]

-----------------------------------------------------------------------------
(* demoteValuesToMemory *)

\* The instruction the entry-block AllocaBuilder is anchored at
\* (Entry.getFirstInsertionPt() when the builder is made).
AllocaAnchor(Fn) ==
    LET insts == getEntryBlock(Fn).insts IN insts[FirstNonPhiPos(insts)].id

CreateAlloca(Fn, anchor) == InsertBefore(Fn, anchor, Inst(Fn.next, "alloca", <<>>, <<>>))

StoreInst(id, val, ptr) == Inst(id, "store", <<val, InstOp(ptr)>>, <<>>)
LoadInst(id, ptr) == Inst(id, "load", <<InstOp(ptr)>>, <<>>)

\* A collection of phis that stops at the first phi it finds.
PhisToRemove_FirstOnly(Fn) ==
    LET phis == SelectSeq(InstSeq(Fn), LAMBDA I : I.op = "phi")
    IN  IF phis = <<>> THEN <<>> ELSE <<phis[1].id>>

\* PhisToRemove: the phis of the function in block order.
PhisToRemove(Fn) ==
    LET all == InstSeq(Fn)
        phis == SelectSeq(all, LAMBDA I : I.op = "phi")
    IN  [j \in DOMAIN phis |-> phis[j].id]

\* Only the standalone version initialises the slot with undef at the end
\* of the entry block.
InitPhiSlot(Fn, Alloca, v) ==
    IF v = "standalone"
    THEN InsertBefore(Fn, getTerminator(getEntryBlock(Fn)).id,
                      StoreInst(Fn.next, UndefOp, Alloca))
    ELSE Fn

\* For each incoming value a store right before the incoming block's terminator.
RECURSIVE StoreIncoming(_, _, _, _)
StoreIncoming(Fn, PN, Alloca, i) ==
    IF i > Len(PN.ops) THEN Fn
    ELSE StoreIncoming(
            InsertBefore(Fn, getTerminator(GetBlock(Fn, PN.bbs[i])).id,
                         StoreInst(Fn.next, PN.ops[i], Alloca)),
            PN, Alloca, i + 1)

\* Where the load that replaces a use of a phi goes: the ChakraPasses version
\* puts it right before the user, the standalone version at the first
\* insertion point of the phi's block.
PhiReload(Fn, pn, user, Alloca, v) ==
    IF v = "standalone"
    THEN InsertAtFirstInsertionPt(Fn, getParent(Fn, pn), LoadInst(Fn.next, Alloca))
    ELSE InsertBefore(Fn, user, LoadInst(Fn.next, Alloca))

RECURSIVE ReplacePhiUses(_, _, _, _, _, _)
ReplacePhiUses(Fn, pn, Alloca, us, j, v) ==
    IF j > Len(us) THEN Fn
    ELSE LET load == Fn.next
             F1 == PhiReload(Fn, pn, us[j][1], Alloca, v)
         IN  ReplacePhiUses(SetOperand(F1, us[j][1], us[j][2], InstOp(load)),
                            pn, Alloca, us, j + 1, v)

DemotePhi(Fn, pn, anchor, v) ==
    LET Alloca == Fn.next
        F1 == CreateAlloca(Fn, anchor)
        F2 == InitPhiSlot(F1, Alloca, v)
        F3 == StoreIncoming(F2, GetInst(F2, pn), Alloca, 1)
        F4 == ReplacePhiUses(F3, pn, Alloca, uses(F3, pn), 1, v)
    IN  eraseFromParent(F4, pn)

RECURSIVE DemotePhis(_, _, _, _, _)
DemotePhis(Fn, phis, j, anchor, v) ==
    IF j > Len(phis) THEN Fn
    ELSE DemotePhis(DemotePhi(Fn, phis[j], anchor, v), phis, j + 1, anchor, v)

\* An instruction is demoted when some instruction of another block uses it.
UsedOutside(Fn, I) ==
    \E u \in Range(uses(Fn, I.id)) : getParent(Fn, u[1]) # getParent(Fn, I.id)

ToDemote(Fn) ==
    LET all == InstSeq(Fn)
        sel == SelectSeq(all, LAMBDA I :
                  /\ ~isTerminator(I) /\ I.op # "alloca" /\ I.op # "phi"
                  /\ UsedOutside(Fn, I))
    IN  [j \in DOMAIN sel |-> sel[j].id]

RECURSIVE ReplaceUsesWithLoads(_, _, _, _)
ReplaceUsesWithLoads(Fn, Alloca, us, j) ==
    IF j > Len(us) THEN Fn
    ELSE LET UserInst == GetInst(Fn, us[j][1])
         IN  IF UserInst.op = "store" /\ UserInst.ops[2] = InstOp(Alloca)
             THEN ReplaceUsesWithLoads(Fn, Alloca, us, j + 1)
             ELSE LET load == Fn.next
                      F1 == InsertBefore(Fn, us[j][1], LoadInst(load, Alloca))
                  IN  ReplaceUsesWithLoads(
                          SetOperand(F1, us[j][1], us[j][2], InstOp(load)),
                          Alloca, us, j + 1)

DemoteInst(Fn, id, anchor) ==
    LET Alloca == Fn.next
        F1 == CreateAlloca(Fn, anchor)
        F2 == InsertAfter(F1, id, StoreInst(F1.next, InstOp(id), Alloca))
    IN  ReplaceUsesWithLoads(F2, Alloca, uses(F2, id), 1)

RECURSIVE DemoteInsts(_, _, _, _)
DemoteInsts(Fn, ids, j, anchor) ==
    IF j > Len(ids) THEN Fn
    ELSE DemoteInsts(DemoteInst(Fn, ids[j], anchor), ids, j + 1, anchor)

demoteValuesToMemory(Fn, v) ==
    LET anchor == AllocaAnchor(Fn)
        F1 == DemotePhis(Fn, PhisToRemove(Fn), 1, anchor, v)
    IN  DemoteInsts(F1, ToDemote(F1), 1, anchor)

-----------------------------------------------------------------------------
(* buildNextStateForTerm *)

\* The result of buildNextStateForTerm: the function with the instructions
\* the builder inserted before the terminator, and the next-state value
\* (ok = FALSE stands for nullptr).
NoState(Fn) == [ok |-> FALSE, Fn |-> Fn, val |-> UndefOp]
State(Fn, val) == [ok |-> TRUE, Fn |-> Fn, val |-> val]

CreateSelect(Fn, T, c, t, f) ==
    InsertBefore(Fn, T, Inst(Fn.next, "select", <<c, t, f>>, <<>>))
CreateICmpEQ(Fn, T, a, b) ==
    InsertBefore(Fn, T, Inst(Fn.next, "icmp_eq", <<a, b>>, <<>>))

\* The loop over Sw->cases(): NS = select(Cond == case value, id, NS) for
\* every case whose successor has an id.
RECURSIVE FoldCases(_, _, _, _, _)
FoldCases(Fn, Sw, Id, NS, k) ==
    IF k > Len(Sw.bbs) THEN State(Fn, NS)
    ELSE IF Sw.bbs[k] \in DOMAIN Id
         THEN LET Is == Fn.next
                  F1 == CreateICmpEQ(Fn, Sw.id, Sw.ops[1], Sw.ops[k])
                  S == F1.next
                  F2 == CreateSelect(F1, Sw.id, InstOp(Is),
                                     ConstOp(Id[Sw.bbs[k]]), NS)
              IN  FoldCases(F2, Sw, Id, InstOp(S), k + 1)
         ELSE FoldCases(Fn, Sw, Id, NS, k + 1)

\* The standalone version's default parameter DefaultState.
DefaultState == 0

\* The switch case.  ChakraPasses: nullptr when the default destination has
\* no id.  Standalone: nullptr only when no successor has an id, and
\* DefaultState stands in for a default destination without id.
SwitchNextState(Fn, Sw, Id, v) ==
    IF v = "standalone"
    THEN IF \A k \in DOMAIN Sw.bbs : Sw.bbs[k] \notin DOMAIN Id
         THEN NoState(Fn)
         ELSE FoldCases(Fn, Sw, Id,
                        IF Sw.bbs[1] \in DOMAIN Id
                        THEN ConstOp(Id[Sw.bbs[1]]) ELSE ConstOp(DefaultState),
                        2)
    ELSE IF Sw.bbs[1] \notin DOMAIN Id
         THEN NoState(Fn)
         ELSE FoldCases(Fn, Sw, Id, ConstOp(Id[Sw.bbs[1]]), 2)

\* A builder that, for a conditional branch with one successor without an
\* id, returns the id of the other.
buildNextStateForTerm_OneSided(Fn, T, Id, v) ==
    CASE T.op = "br" ->
            IF T.bbs[1] \in DOMAIN Id
            THEN State(Fn, ConstOp(Id[T.bbs[1]]))
            ELSE NoState(Fn)
      [] T.op = "condbr" ->
            IF T.bbs[1] \in DOMAIN Id /\ T.bbs[2] \in DOMAIN Id
            THEN State(CreateSelect(Fn, T.id, T.ops[1],
                                    ConstOp(Id[T.bbs[1]]), ConstOp(Id[T.bbs[2]])),
                       InstOp(Fn.next))
            ELSE IF T.bbs[1] \in DOMAIN Id
                 THEN State(Fn, ConstOp(Id[T.bbs[1]]))
                 ELSE IF T.bbs[2] \in DOMAIN Id
                      THEN State(Fn, ConstOp(Id[T.bbs[2]]))
                      ELSE NoState(Fn)
      [] T.op = "switch" -> SwitchNextState(Fn, T, Id, v)
      [] OTHER -> NoState(Fn)

buildNextStateForTerm(Fn, T, Id, v) ==
    CASE T.op = "br" ->
            IF T.bbs[1] \in DOMAIN Id
            THEN State(Fn, ConstOp(Id[T.bbs[1]]))
            ELSE NoState(Fn)
      [] T.op = "condbr" ->
            IF T.bbs[1] \in DOMAIN Id /\ T.bbs[2] \in DOMAIN Id
            THEN State(CreateSelect(Fn, T.id, T.ops[1],
                                    ConstOp(Id[T.bbs[1]]), ConstOp(Id[T.bbs[2]])),
                       InstOp(Fn.next))
            ELSE NoState(Fn)
      [] T.op = "switch" -> SwitchNextState(Fn, T, Id, v)
      [] OTHER -> NoState(Fn)

isSupportedTerminator(T) == T.op \in {"br", "condbr", "switch", "ret", "unreachable"}

\* A check that looks at the terminators only, not at exception-handling pads.
hasUnsupportedControlFlow_NoEHPad(Fn) ==
    \E i \in DOMAIN Fn.blocks : ~isSupportedTerminator(getTerminator(Fn.blocks[i]))

hasUnsupportedControlFlow(Fn) ==
    \E i \in DOMAIN Fn.blocks :
        \/ Fn.blocks[i].ehpad
        \/ ~isSupportedTerminator(getTerminator(Fn.blocks[i]))

-----------------------------------------------------------------------------
(* removeUnreachableBlocks *)

RECURSIVE ReachFrom(_, _)
ReachFrom(Fn, S) ==
    LET T == S \cup UNION {successors(GetBlock(Fn, n)) \cap BlockNames(Fn) : n \in S}
    IN  IF T = S THEN S ELSE ReachFrom(Fn, T)

Reachable(Fn) == ReachFrom(Fn, {Fn.blocks[1].name})

\* Blocks that cannot be reached from the entry are deleted; what still
\* refers to an instruction of a deleted block refers to undef from then on.
removeUnreachableBlocks(Fn) ==
    LET R == Reachable(Fn)
        kept == SelectSeq(Fn.blocks, LAMBDA B : B.name \in R)
        ids == UNION {{kept[i].insts[j].id : j \in DOMAIN kept[i].insts} : i \in DOMAIN kept}
        fix(op) == IF op.k = "i" /\ op.v \notin ids THEN UndefOp ELSE op
    IN  [Fn EXCEPT !.blocks =
            [i \in DOMAIN kept |->
                [kept[i] EXCEPT !.insts =
                    [j \in DOMAIN kept[i].insts |->
                        [kept[i].insts[j] EXCEPT !.ops =
                            [k \in DOMAIN kept[i].insts[j].ops |->
                                fix(kept[i].insts[j].ops[k])]]]]]]

-----------------------------------------------------------------------------
(* flattenFunction *)

size(Fn) == Len(Fn.blocks)

\* FlattenTargets: the non-entry blocks in function order; the ChakraPasses
\* version leaves out a block that holds nothing but a return or unreachable.
IsFlattenTarget(Fn, B, v) ==
    /\ B.name # getEntryBlock(Fn).name
    /\ \/ v = "standalone"
       \/ ~(getTerminator(B).op \in {"ret", "unreachable"} /\ Len(B.insts) = 1)

FlattenTargets(Fn, v) ==
    LET sel == SelectSeq(Fn.blocks, LAMBDA B : IsFlattenTarget(Fn, B, v))
    IN  [j \in DOMAIN sel |-> sel[j].name]

\* BlockId: ids 1, 2, ... in the order of FlattenTargets (NextId starts at 1).
BlockId(Fn, v) ==
    LET ft == FlattenTargets(Fn, v)
    IN  [n \in Range(ft) |-> CHOOSE j \in DOMAIN ft : ft[j] = n]

CreateBlock(Fn, name) == [Fn EXCEPT !.blocks = Append(Fn.blocks, Block(name, <<>>))]

\* A dispatcher that switches on the address of the state slot, with no
\* load of the state.
BuildDispatcher_NoLoad(Fn, StateVar, ft, Id) ==
    InsertAtEnd(Fn, DispatchName,
        Inst(Fn.next, "switch",
             <<InstOp(StateVar)>> \o [j \in DOMAIN ft |-> ConstOp(Id[ft[j]])],
             <<DefaultName>> \o ft))

\* A dispatcher whose switch has no case for the last flatten target.
BuildDispatcher_NoLastCase(Fn, StateVar, ft, Id) ==
    LET cur == Fn.next
        F1 == InsertAtEnd(Fn, DispatchName, LoadInst(cur, StateVar))
        some == SubSeq(ft, 1, Len(ft) - 1)
    IN  InsertAtEnd(F1, DispatchName,
            Inst(F1.next, "switch",
                 <<InstOp(cur)>> \o [j \in DOMAIN some |-> ConstOp(Id[some[j]])],
                 <<DefaultName>> \o some))

\* The dispatcher: cff.cur = load state; switch cff.cur, default, one case
\* per flatten target.
BuildDispatcher(Fn, StateVar, ft, Id) ==
    LET cur == Fn.next
        F1 == InsertAtEnd(Fn, DispatchName, LoadInst(cur, StateVar))
    IN  InsertAtEnd(F1, DispatchName,
            Inst(F1.next, "switch",
                 <<InstOp(cur)>> \o [j \in DOMAIN ft |-> ConstOp(Id[ft[j]])],
                 <<DefaultName>> \o ft))

\* The rewrite of one flatten target's terminator.
RewriteTerminator(Fn, name, StateVar, Id, v) ==
    LET Term == getTerminator(GetBlock(Fn, name)) IN
    IF Term.op \in {"ret", "unreachable"} THEN Fn
    ELSE LET NextState == buildNextStateForTerm(Fn, Term, Id, v) IN
         IF NextState.ok
         THEN LET F1 == InsertBefore(NextState.Fn, Term.id,
                            StoreInst(NextState.Fn.next, NextState.val, StateVar))
                  F2 == InsertBefore(F1, Term.id,
                            Inst(F1.next, "br", <<>>, <<DispatchName>>))
              IN  eraseFromParent(F2, Term.id)
         ELSE Fn

RECURSIVE RewriteTerminators(_, _, _, _, _, _)
RewriteTerminators(Fn, ft, j, StateVar, Id, v) ==
    IF j > Len(ft) THEN Fn
    ELSE RewriteTerminators(RewriteTerminator(Fn, ft[j], StateVar, Id, v),
                            ft, j + 1, StateVar, Id, v)

\* The result of flattenFunction: its return value and the function as it
\* leaves it; BlockId and StateVar are kept for the properties (StateVar is
\* Undef when flattenFunction returned before creating it).
FlattenResult(ret, Fn, Id, StateVar) ==
    [ret |-> ret, Fn |-> Fn, BlockId |-> Id, StateVar |-> StateVar]

\* The state variable cff.state at the entry's first insertion point.
CreateStateVar(Fn) ==
    InsertAtFirstInsertionPt(Fn, getEntryBlock(Fn).name,
                             Inst(Fn.next, "alloca", <<>>, <<>>))

\* The blocks cff.dispatch (empty so far) and cff.default (unreachable).
CreateDispatchBlocks(Fn) ==
    InsertAtEnd(CreateBlock(CreateBlock(Fn, DispatchName), DefaultName),
                DefaultName, Inst(Fn.next, "unreachable", <<>>, <<>>))

\* The entry stores the initial state and branches to the dispatcher.
EnterDispatcher(Fn, EntryTerm, val, StateVar) ==
    InsertAtEnd(
        eraseFromParent(
            InsertBefore(Fn, EntryTerm, StoreInst(Fn.next, val, StateVar)),
            EntryTerm),
        getEntryBlock(Fn).name,
        Inst(Fn.next + 1, "br", <<>>, <<DispatchName>>))

\* From the initial state on: return false if there is none, else the
\* entry's rewrite, the dispatcher, the targets' rewrite, the clean-up.
FlattenFrom(InitialState, Fn, EntryTerm, ft, Id, StateVar, v) ==
    IF ~InitialState.ok THEN FlattenResult(FALSE, Fn, Id, StateVar)
    ELSE FlattenResult(TRUE,
            removeUnreachableBlocks(
                RewriteTerminators(
                    BuildDispatcher(
                        EnterDispatcher(InitialState.Fn, EntryTerm,
                                        InitialState.val, StateVar),
                        StateVar, ft, Id),
                    ft, 1, StateVar, Id, v)),
            Id, StateVar)

\* From the state variable on; Fn has the state variable and both blocks.
FlattenWithState(Fn, ft, Id, StateVar, v) ==
    FlattenFrom(buildNextStateForTerm(Fn, getTerminator(getEntryBlock(Fn)), Id, v),
                Fn, getTerminator(getEntryBlock(Fn)).id, ft, Id, StateVar, v)

\* From the demoted function on.
FlattenDemoted(Fn, v) ==
    IF Len(FlattenTargets(Fn, v)) = 0
    THEN FlattenResult(FALSE, Fn, BlockId(Fn, v), Undef)
    ELSE FlattenWithState(CreateDispatchBlocks(CreateStateVar(Fn)),
                          FlattenTargets(Fn, v), BlockId(Fn, v), Fn.next, v)

flattenFunction(Fn, v) ==
    IF Fn.decl \/ Fn.intrinsic \/ size(Fn) < 2
    THEN FlattenResult(FALSE, Fn, <<>>, Undef)
    ELSE IF hasUnsupportedControlFlow(Fn)
    THEN FlattenResult(FALSE, Fn, <<>>, Undef)
    ELSE FlattenDemoted(demoteValuesToMemory(Fn, v), v)

-----------------------------------------------------------------------------
(* verifyFunction: what the host's verifier requires of a function *)

predecessors(Fn, name) ==
    {Fn.blocks[i].name : i \in {j \in DOMAIN Fn.blocks : name \in successors(Fn.blocks[j])}}

\* The blocks reachable from the entry without passing through block `avoid`.
RECURSIVE ReachAvoidFrom(_, _, _)
ReachAvoidFrom(Fn, avoid, S) ==
    LET T == S \cup (UNION {successors(GetBlock(Fn, n)) \cap BlockNames(Fn) : n \in S}
                     \ {avoid})
    IN  IF T = S THEN S ELSE ReachAvoidFrom(Fn, avoid, T)

\* Block a dominates block b: every path from the entry to b passes through a.
BlockDominates(Fn, a, b) ==
    \/ a = b
    \/ a = Fn.blocks[1].name
    \/ b \notin ReachAvoidFrom(Fn, a, {Fn.blocks[1].name})

\* The definition of operand k of instruction U (at position pu of block
\* bu) dominates the use.
UseDominated(Fn, bu, pu, U, k) ==
    LET op == U.ops[k] IN
    IF op.k # "i" THEN TRUE
    ELSE IF ~HasInst(Fn, op.v) THEN FALSE
    ELSE LET bd == getParent(Fn, op.v)
             pd == PosIn(GetBlock(Fn, bd).insts, op.v)
         IN  IF U.op = "phi"
             THEN \/ U.bbs[k] \notin Reachable(Fn)
                  \/ BlockDominates(Fn, bd, U.bbs[k])
             ELSE \/ bu \notin Reachable(Fn)
                  \/ (bd = bu /\ pd < pu)
                  \/ (bd # bu /\ BlockDominates(Fn, bd, bu))

BlockWellFormed(Fn, B) ==
    /\ HasTerminator(B)
    /\ \A j \in 1..(Len(B.insts) - 1) : ~isTerminator(B.insts[j])
    /\ successors(B) \subseteq BlockNames(Fn)
    /\ \A j \in DOMAIN B.insts :
          /\ B.insts[j].op = "phi" =>
                /\ j < FirstNonPhiPos(B.insts)
                /\ Range(B.insts[j].bbs) = predecessors(Fn, B.name)
          /\ \A k \in DOMAIN B.insts[j].ops : UseDominated(Fn, B.name, j, B.insts[j], k)

\* verifyFunction returns true when the function is broken; WellFormed is
\* its negation.
WellFormed(Fn) ==
    /\ predecessors(Fn, Fn.blocks[1].name) = {}
    /\ \A i \in DOMAIN Fn.blocks : BlockWellFormed(Fn, Fn.blocks[i])

verifyFunction(Fn) == ~WellFormed(Fn)

-----------------------------------------------------------------------------
(* The functions the host may hand to the pass *)

BlockPool == <<"entry", "bb1", "bb2", "bb3", "bb4", "bb5">>
BlockName(b) == BlockPool[b + 1]

\* Instruction k of block b of a generated function.
IdOf(b, k) == b * 10 + k

\* The terminators a block of an n-block function may end in: t are the
\* indices of its successors (no block branches to the entry).  "pret" is a
\* block that holds a return and nothing else.  Of a two-way terminator's
\* two orders of successors only one is generated.
TermMenu(n) ==
    LET T == 1..(n - 1)
        Pairs == {q \in T \X T : q[1] < q[2]}
    IN   {[k |-> "br", t |-> <<x>>] : x \in T}
    \cup {[k |-> "condbr", t |-> <<q[1], q[2]>>] : q \in Pairs}
    \cup {[k |-> "switch", t |-> <<q[1], q[2]>>] : q \in Pairs}
    \cup {[k |-> c, t |-> <<>>] : c \in {"ret", "pret", "unreachable"}}

\* Where block j is first branched to: blocks are numbered in that order,
\* and every block is branched to.
FirstRef(n, tc, j) ==
    LET R == {IdOf(i, pos) : i \in 0..(n - 1), pos \in 1..2}
        Hit == {r \in R : LET i == r \div 10
                              pos == r % 10
                          IN  pos \in DOMAIN tc[i].t /\ tc[i].t[pos] = j}
    IN  IF Hit = {} THEN IdOf(n, 0)
        ELSE CHOOSE x \in Hit : \A y \in Hit : x <= y

Canonical(n, tc) ==
    /\ tc[0].t # <<>>
    /\ \A j \in 1..(n - 1) : FirstRef(n, tc, j) < IdOf(n, 0)
    /\ \A j \in 2..(n - 1) : FirstRef(n, tc, j - 1) < FirstRef(n, tc, j)

CFGs(n) == {tc \in [0..(n - 1) -> TermMenu(n)] : Canonical(n, tc)}

\* The data flow laid over a control-flow graph:
\*   none    no value crosses a block boundary
\*   val     x = add arg, 1 in block d, used in block u
\*   alloca  a = alloca; store arg, a in block d; load a in block u
\*   phi     p = phi in block h, n = add p, 1 after it, p used in block u;
\*           mode "n": p's incoming value from a block other than the entry
\*           is n, mode "const": a constant
\*   phi2    two phis p, q in block h that take each other's value
NoOverlay == [kind |-> "none", d |-> 0, u |-> 0, mode |-> ""]
Overlays(n) ==
    LET T == 1..(n - 1) IN
         {NoOverlay}
    \cup {[kind |-> c, d |-> q[1], u |-> q[2], mode |-> ""] :
            c \in {"val", "alloca"},
            q \in {r \in (0..(n - 1)) \X T : r[1] # r[2]}}
    \cup {[kind |-> "phi", d |-> h, u |-> u, mode |-> m] :
            h \in T, u \in T, m \in {"n", "const"}}
    \cup {[kind |-> "phi2", d |-> h, u |-> h, mode |-> "n"] : h \in T}

PredIdx(n, tc, h) ==
    LET P == {i \in 0..(n - 1) : \E pos \in DOMAIN tc[i].t : tc[i].t[pos] = h}
    IN  SelectSeq([i \in 1..n |-> i - 1], LAMBDA i : i \in P)

GenPhis(n, tc, ov, b) ==
    LET preds == PredIdx(n, tc, b)
        bbs == [j \in DOMAIN preds |-> BlockName(preds[j])]
        inc(own, c0) ==
            [j \in DOMAIN preds |->
                IF preds[j] = 0 THEN ConstOp(c0)
                ELSE IF ov.mode = "n" THEN InstOp(own)
                ELSE ConstOp(preds[j] + 1)]
    IN  IF ov.kind = "phi" /\ ov.d = b
        THEN <<Inst(IdOf(b, 1), "phi", inc(IdOf(b, 3), 0), bbs)>>
        ELSE IF ov.kind = "phi2" /\ ov.d = b
        THEN <<Inst(IdOf(b, 1), "phi", inc(IdOf(b, 2), 0), bbs),
               Inst(IdOf(b, 2), "phi", inc(IdOf(b, 1), 1), bbs)>>
        ELSE <<>>

GenDefs(tc, ov, b) ==
    CASE ov.kind = "val" /\ ov.d = b ->
            <<Inst(IdOf(b, 5), "add", <<ArgOp, ConstOp(1)>>, <<>>)>>
      [] ov.kind = "alloca" /\ ov.d = b ->
            <<Inst(IdOf(b, 5), "alloca", <<>>, <<>>),
              StoreInst(IdOf(b, 6), ArgOp, IdOf(b, 5))>>
      [] ov.kind \in {"phi", "phi2"} /\ ov.d = b ->
            <<Inst(IdOf(b, 3), "add", <<InstOp(IdOf(b, 1)), ConstOp(1)>>, <<>>)>>
            \o (IF tc[b].k = "condbr"
                THEN <<Inst(IdOf(b, 4), "icmp_slt", <<InstOp(IdOf(b, 3)), ArgOp>>, <<>>)>>
                ELSE <<>>)
      [] OTHER -> <<>>

GenUses(tc, ov, b) ==
    CASE ov.kind = "val" /\ ov.u = b /\ tc[b].k # "pret" ->
            <<Inst(IdOf(b, 8), "call", <<InstOp(IdOf(ov.d, 5))>>, <<>>)>>
      [] ov.kind = "alloca" /\ ov.u = b ->
            <<LoadInst(IdOf(b, 7), IdOf(ov.d, 5)),
              Inst(IdOf(b, 8), "call", <<InstOp(IdOf(b, 7))>>, <<>>)>>
      [] ov.kind = "phi" /\ ov.u = b ->
            <<Inst(IdOf(b, 8), "call", <<InstOp(IdOf(ov.d, 1))>>, <<>>)>>
      [] ov.kind = "phi2" /\ ov.u = b ->
            <<Inst(IdOf(b, 7), "call", <<InstOp(IdOf(b, 1))>>, <<>>),
              Inst(IdOf(b, 8), "call", <<InstOp(IdOf(b, 2))>>, <<>>)>>
      [] OTHER -> <<>>

\* Conditions are the function's argument, or in the block of a phi the
\* comparison of n with the argument; a switch has the one case value 1;
\* a return returns the number of its block, or x in a "pret" block that
\* uses x.
GenTerm(tc, ov, b) ==
    LET c == tc[b]
        bbs == [j \in DOMAIN c.t |-> BlockName(c.t[j])]
        id == IdOf(b, 9)
    IN  CASE c.k = "br" -> Inst(id, "br", <<>>, bbs)
          [] c.k = "condbr" ->
                Inst(id, "condbr",
                     <<IF ov.kind \in {"phi", "phi2"} /\ ov.d = b
                       THEN InstOp(IdOf(b, 4)) ELSE ArgOp>>, bbs)
          [] c.k = "switch" -> Inst(id, "switch", <<ArgOp, ConstOp(1)>>, bbs)
          [] c.k = "unreachable" -> Inst(id, "unreachable", <<>>, <<>>)
          [] OTHER ->
                Inst(id, "ret",
                     <<IF ov.kind = "val" /\ ov.u = b /\ c.k = "pret"
                       THEN InstOp(IdOf(ov.d, 5)) ELSE ConstOp(b)>>, <<>>)

\* A block: its phis, a call that marks it (not in the entry, not in a block
\* that holds only its terminator), the overlay's instructions, the terminator.
GenBlock(n, tc, ov, b) ==
    Block(BlockName(b),
          GenPhis(n, tc, ov, b)
          \o (IF tc[b].k \in {"pret", "unreachable"} \/ b = 0 THEN <<>>
              ELSE <<Inst(IdOf(b, 0), "call", <<ConstOp(b)>>, <<>>)>>)
          \o GenDefs(tc, ov, b)
          \o GenUses(tc, ov, b)
          \o <<GenTerm(tc, ov, b)>>)

GenFunction(n, tc, ov) ==
    [blocks |-> [i \in 1..n |-> GenBlock(n, tc, ov, i - 1)],
     next |-> IdOf(n, 0), decl |-> FALSE, intrinsic |-> FALSE]

\* The control-flow graphs of n blocks, all reachable, without data flow.
Plain(n) ==
    {f \in {GenFunction(n, tc, NoOverlay) : tc \in CFGs(n)} :
        Reachable(f) = BlockNames(f)}

\* Data flow is laid over the graphs of three blocks: one for a definition,
\* one for a use and one in between or aside.
Data ==
    {f \in {GenFunction(3, c[1], c[2]) :
                c \in CFGs(3) \X (Overlays(3) \ {NoOverlay})} :
        Reachable(f) = BlockNames(f) /\ WellFormed(f)}

\* What run passes over: a declaration, an intrinsic, a function of one
\* block, functions with a terminator or a block the pass does not support.
Declaration(intr) == [blocks |-> <<>>, next |-> 0, decl |-> TRUE, intrinsic |-> intr]
SingleBlock ==
    [blocks |-> <<Block("entry", <<Inst(IdOf(0, 9), "ret", <<ConstOp(0)>>, <<>>)>>)>>,
     next |-> IdOf(1, 0), decl |-> FALSE, intrinsic |-> FALSE]
Unsupported(op) ==
    [blocks |-> <<Block("entry", <<Inst(IdOf(0, 9), op, <<>>, <<"bb1">>)>>),
                  Block("bb1", <<Inst(IdOf(1, 0), "call", <<ConstOp(1)>>, <<>>),
                                 Inst(IdOf(1, 9), "ret", <<ConstOp(1)>>, <<>>)>>)>>,
     next |-> IdOf(2, 0), decl |-> FALSE, intrinsic |-> FALSE]
WithEHPad ==
    LET Fn == Unsupported("br")
    IN  [Fn EXCEPT !.blocks[2].ehpad = TRUE]
Passed ==
    {Declaration(FALSE), Declaration(TRUE), SingleBlock, WithEHPad}
    \cup {Unsupported(op) : op \in {"indirectbr", "invoke", "callbr"}}

\* Functions whose entry returns, followed by a block nothing branches to.
EntryReturns ==
    {[blocks |-> <<Block("entry", <<Inst(IdOf(0, 9), "ret", <<ConstOp(0)>>, <<>>)>>),
                   Block("bb1", body)>>,
      next |-> IdOf(2, 0), decl |-> FALSE, intrinsic |-> FALSE] :
        body \in {<<Inst(IdOf(1, 9), "ret", <<ConstOp(1)>>, <<>>)>>,
                  <<Inst(IdOf(1, 0), "call", <<ConstOp(1)>>, <<>>),
                    Inst(IdOf(1, 9), "ret", <<ConstOp(1)>>, <<>>)>>,
                  <<Inst(IdOf(1, 0), "call", <<ConstOp(1)>>, <<>>),
                    Inst(IdOf(1, 9), "br", <<>>, <<"bb1">>)>>}}

Functions == UNION {Plain(n) : n \in 2..MaxBlocks} \cup Data \cup Passed \cup EntryReturns

\* Modules of two functions are built from a few functions of each sort.
Chain ==
    GenFunction(3, [b \in 0..2 |->
                      IF b = 0 THEN [k |-> "br", t |-> <<1>>]
                      ELSE IF b = 1 THEN [k |-> "br", t |-> <<2>>]
                      ELSE [k |-> "ret", t |-> <<>>]],
                [kind |-> "alloca", d |-> 1, u |-> 2, mode |-> ""])
Straight ==
    GenFunction(2, [b \in 0..1 |->
                      IF b = 0 THEN [k |-> "br", t |-> <<1>>]
                      ELSE [k |-> "ret", t |-> <<>>]], NoOverlay)
Paired == {Declaration(FALSE), SingleBlock, Unsupported("indirectbr"), Straight, Chain}

Modules == {<<f>> : f \in Functions} \cup {<<p[1], p[2]>> : p \in Paired \X Paired}

-----------------------------------------------------------------------------
(* String encryption: the module as the pass sees it *)

\* A module is a record
\*   globals       the global variables in module order:
\*                 [name, bytes, constant]; bytes is the initializer, an array
\*                 of i8 that is a ConstantDataArray (not all zero)
\*   insts         the instructions that refer to strings, in program order:
\*                 [op |-> "use", arg] is an instruction of the program with a
\*                 pointer operand, [op |-> "decrypt", dest, src, len] a call
\*                 of the decrypt stub (with the address computation of src)
\*   constUsers    the globals that constants refer to (initializers of
\*                 other globals), one entry per user
\*   compilerUsed  the members of llvm.compiler.used
\*   functions     the functions of the module that take part in string
\*                 encryption, in module order: [name, key], key being the
\*                 byte the body xors with
\*   bufs          the stack buffers allocated so far (dec.alloca): the size
\*                 of each in bytes; a buffer is named by its position
\* A pointer operand is a global or a stack buffer.
GlobalRef(name) == [k |-> "global", name |-> name, buf |-> 0]
BufRef(b) == [k |-> "buf", name |-> "", buf |-> b]

Global(name, bytes, constant) == [name |-> name, bytes |-> bytes, constant |-> constant]
UseInst(arg) == [op |-> "use", arg |-> arg, dest |-> 0, len |-> 0]
DecryptCall(dest, src, len) == [op |-> "decrypt", arg |-> src, dest |-> dest, len |-> len]

\* Module::getFunction(name): the positions of the functions of that name
\* (empty stands for nullptr).
getFunction(Mod, name) == {f \in DOMAIN Mod.functions : Mod.functions[f].name = name}

\* A decrypt stub that is created on every call, whether or not the module
\* has one.
injectDecryptionStub_Always(Mod, key) ==
    [Mod EXCEPT !.functions =
        Append(Mod.functions, [name |-> "chakravyuha_decrypt_string", key |-> key])]

GlobalNames(Mod) == {Mod.globals[i].name : i \in DOMAIN Mod.globals}
getGlobal(Mod, name) ==
    Mod.globals[CHOOSE i \in DOMAIN Mod.globals : Mod.globals[i].name = name]

\* static const char XOR_KEY = 0xAB
XOR_KEY == 171

\* a ^ b on bytes
RECURSIVE Xor(_, _)
Xor(a, b) ==
    IF a = 0 /\ b = 0 THEN 0
    ELSE (((a % 2) + (b % 2)) % 2) + 2 * Xor(a \div 2, b \div 2)

encryptString(S, key) == [i \in DOMAIN S |-> Xor(S[i], key)]

\* injectDecryptionStub: the function is created, with the key in its
\* body, only if the module has no function of that name.
injectDecryptionStub(Mod, key) ==
    IF getFunction(Mod, "chakravyuha_decrypt_string") # {} THEN Mod
    ELSE [Mod EXCEPT !.functions =
            Append(Mod.functions, [name |-> "chakravyuha_decrypt_string", key |-> key])]

starts_with(name, prefix) ==
    Len(name) >= Len(prefix) /\ SubSeq(name, 1, Len(prefix)) = prefix

\* A collection that takes globals that are not constant too.
IsCollected_NotOnlyConstants(G, v) ==
    v = "standalone" => starts_with(G.name, ".str.") \/ starts_with(G.name, ".str")

\* The globals run collects: constants with a string initializer; the
\* standalone version takes only those whose name starts with ".str".
IsCollected(G, v) ==
    /\ G.constant
    /\ v = "standalone" => starts_with(G.name, ".str.") \/ starts_with(G.name, ".str")

StringGlobalsToEncrypt(Mod, v) ==
    LET sel == SelectSeq(Mod.globals, LAMBDA G : IsCollected(G, v))
    IN  [j \in DOMAIN sel |-> sel[j].name]

\* EncryptedBytes: the xor of every byte, then the last byte overwritten
\* with '\0' ^ key.
EncryptedBytes(bytes, key) ==
    [encryptString(bytes, key) EXCEPT ![Len(bytes)] = Xor(0, key)]

\* Whether instruction I uses global `name` as an operand of its own.  The
\* address computation of a decrypt call's src is an instruction when the
\* builder does not fold it (gep = "inst"), else a constant expression, and
\* then the user of the global is that constant.
IsInstUse(I, name, gep) ==
    /\ I.arg = GlobalRef(name)
    /\ I.op = "decrypt" => gep = "inst"

\* The rewrite of the uses of global `name` from instruction p on: before
\* each user a fresh buffer and a call decrypt(buffer, enc, len), and the
\* use set to the buffer.  R is [Mod, Changed].
RECURSIVE RewriteUses(_, _, _, _, _, _)
RewriteUses(R, p, name, enc, len, gep) ==
    IF p > Len(R.Mod.insts) THEN R
    ELSE IF ~IsInstUse(R.Mod.insts[p], name, gep)
    THEN RewriteUses(R, p + 1, name, enc, len, gep)
    ELSE RewriteUses(
            [Mod |-> [R.Mod EXCEPT
                        !.insts = InsertAt(
                            [R.Mod.insts EXCEPT ![p].arg = BufRef(Len(R.Mod.bufs) + 1)],
                            p, DecryptCall(Len(R.Mod.bufs) + 1, GlobalRef(enc), len)),
                        !.bufs = Append(R.Mod.bufs, len)],
             Changed |-> TRUE],
            p + 2, name, enc, len, gep)

\* GV->eraseFromParent(): the global leaves the module, whatever still
\* refers to it.
EraseGlobal(Mod, name) ==
    [Mod EXCEPT !.globals = SelectSeq(Mod.globals, LAMBDA G : G.name # name)]

\* The new global name.enc with the encrypted bytes, added to
\* llvm.compiler.used.
AddEncrypted(Mod, name, bytes) ==
    [Mod EXCEPT !.globals = Append(Mod.globals, Global(name, bytes, TRUE)),
                !.compilerUsed = Append(Mod.compilerUsed, name)]

\* The body of run's loop for one collected global.
EncryptGlobal(R, name, key, gep) ==
    IF getGlobal(R.Mod, name).bytes = <<>> THEN R
    ELSE [Mod |-> EraseGlobal(
                    RewriteUses(
                        [Mod |-> AddEncrypted(R.Mod, name \o ".enc",
                                    EncryptedBytes(getGlobal(R.Mod, name).bytes, key)),
                         Changed |-> R.Changed],
                        1, name, name \o ".enc",
                        Len(getGlobal(R.Mod, name).bytes), gep).Mod,
                    name),
          Changed |-> \/ R.Changed
                      \/ \E p \in DOMAIN R.Mod.insts :
                            IsInstUse(R.Mod.insts[p], name, gep)]

RECURSIVE EncryptGlobals(_, _, _, _, _)
EncryptGlobals(R, names, j, key, gep) ==
    IF j > Len(names) THEN R
    ELSE EncryptGlobals(EncryptGlobal(R, names[j], key, gep), names, j + 1, key, gep)

\* StringEncryptionPass::run on module Mod with the key it drew:
\* [Mod, Changed, PA, collected].
RunResult(R, collected) ==
    [Mod |-> R.Mod, Changed |-> R.Changed,
     PA |-> IF R.Changed THEN "none" ELSE "all", collected |-> collected]

StringEncryptionRun(Mod, key, v, gep) ==
    IF StringGlobalsToEncrypt(Mod, v) = <<>>
    THEN RunResult([Mod |-> Mod, Changed |-> FALSE], <<>>)
    ELSE RunResult(
            EncryptGlobals([Mod |-> injectDecryptionStub(Mod, key), Changed |-> FALSE],
                           StringGlobalsToEncrypt(Mod, v), 1, key, gep),
            StringGlobalsToEncrypt(Mod, v))

-----------------------------------------------------------------------------
(* The modules the host may hand to string encryption *)

\* The bytes strings are made of: the terminator, a letter, and the byte
\* equal to XOR_KEY.
Bytes == {0, 65, XOR_KEY}

\* The keys a run may draw: uniform_int_distribution<>(1, 255).
Keys == {1, XOR_KEY, 255}

RECURSIVE SeqsUpTo(_, _)
SeqsUpTo(Sy, n) ==
    IF n = 0 THEN {<<>>}
    ELSE LET shorter == SeqsUpTo(Sy, n - 1)
         IN  shorter \cup {Append(q, x) : q \in shorter, x \in Sy}

\* An initializer of all zeros is a ConstantAggregateZero, not a
\* ConstantDataArray.
Plaintexts ==
    {q \in SeqsUpTo(Bytes, MaxLen) : q # <<>> /\ \E i \in DOMAIN q : q[i] # 0}

\* The users of a global: instructions and constants.
UserMenu ==
    {<<>>, <<"inst">>, <<"const">>, <<"inst", "inst">>, <<"inst", "const">>}

ModuleOf(globals, users) ==
    [globals |-> globals,
     insts |-> [j \in DOMAIN users |-> UseInst(GlobalRef(users[j][1]))],
     constUsers |-> <<>>,
     compilerUsed |-> <<>>,
     functions |-> <<>>,
     bufs |-> <<>>]

\* A module of one global with the users of the menu.
OneGlobal(name, bytes, constant, us) ==
    LET iu == SelectSeq(us, LAMBDA u : u = "inst")
        cu == SelectSeq(us, LAMBDA u : u = "const")
    IN  [ModuleOf(<<Global(name, bytes, constant)>>, [j \in DOMAIN iu |-> <<name>>])
            EXCEPT !.constUsers = [j \in DOMAIN cu |-> name]]

\* Modules of two globals, the first used by an instruction, the second by
\* a constant or by an instruction.
TwoGlobals(b1, b2, u2) ==
    LET Mod == ModuleOf(<<Global(".str", b1, TRUE), Global(".str.1", b2, TRUE)>>,
                        IF u2 = "inst" THEN <<<<".str">>, <<".str.1">>>>
                        ELSE <<<<".str">>>>)
    IN  [Mod EXCEPT !.constUsers = IF u2 = "inst" THEN <<>> ELSE <<".str.1">>]

StringModules ==
         {ModuleOf(<<>>, <<>>)}
    \cup {OneGlobal(n, b, c, us) :
            n \in {".str", "msg"}, b \in Plaintexts, c \in BOOLEAN, us \in UserMenu}
    \cup {TwoGlobals(<<65, 0>>, <<65>>, u2) : u2 \in {"inst", "const"}}

-----------------------------------------------------------------------------
(* StringEncryptionPass::run, run after run *)

\* No call of the decrypt stub is under way.
StubIdle ==
    stub = [pc |-> "idle", index |-> 0, length |-> 0, key |-> 0,
            src |-> <<>>, dest |-> <<>>, writes |-> <<>>, iters |-> 0]

\* Neither fake-code insertion nor the multi-cycle pass is under way.
\* fk: pc is where FakeCodeInsertionPass::run is, f the function its loop
\* is at, Changed its local; candidateBlocks, dummyVar, changed, num
\* (numLoops, numConds or numBlocks) and i are the locals of
\* addFakeCodeToFunction;
\* log has one record per call of insertFakeLoop, insertFakeConditional or
\* insertFakeBlock so far.
FkIdle ==
    [pc |-> "idle", f |-> 0, Changed |-> FALSE, candidateBlocks |-> <<>>,
     dummyVar |-> 0, changed |-> FALSE, num |-> 0, i |-> 0, PA |-> "",
     log |-> <<>>]

\* struct ReportData with its default member initialisers (the fields the
\* fake-code and the multi-cycle pass write).
ReportData ==
    [enableStringEncryption |-> FALSE, enableFakeCodeInsertion |-> FALSE,
     cyclesCompleted |-> 1, cyclesRequested |-> 1,
     fakeCodeBlocksInserted |-> 0, fakeLoopsInserted |-> 0,
     fakeConditionalsInserted |-> 0, totalBogusInstructions |-> 0,
     passesRun |-> <<>>]

MCIdle ==
    /\ FM0 = <<>> /\ FM = <<>> /\ fk = FkIdle
    /\ Report = ReportData
    /\ mc = [pc |-> "idle", Cycle |-> 0, NumCycles |-> 0]

CFFIdle ==
    /\ M0 = <<>> /\ M = <<>> /\ pc = "idle" /\ idx = 0 /\ flat = <<>>
    /\ Changed = FALSE /\ flattenedFunctions = 0 /\ flattenedBlocks = 0
    /\ skippedFunctions = 0 /\ errs = {} /\ PA = ""

SEIdle == SM0 = ModuleOf(<<>>, <<>>) /\ SM = SM0 /\ gepKind = "inst" /\ runs = <<>>

InitSE ==
    /\ ver \in {"chakra", "standalone"}
    /\ SM0 \in StringModules
    /\ SM = SM0
    /\ gepKind \in {"inst", "const"}
    /\ runs = <<>>
    /\ CFFIdle
    /\ StubIdle
    /\ MCIdle

\* One run: before and after are the module at the start and at the end.
RunRecord(key, r, before) ==
    [key |-> key, collected |-> r.collected, Changed |-> r.Changed, PA |-> r.PA,
     before |-> before, after |-> r.Mod]

\* A run that finds no string to encrypt.
SERunNothing ==
    /\ Len(runs) < MaxRuns
    /\ StringGlobalsToEncrypt(SM, ver) = <<>>
    /\ runs' = Append(runs, RunRecord(0, StringEncryptionRun(SM, 0, ver, gepKind), SM))
    /\ UNCHANGED <<SM0, SM, gepKind, ver>>
    /\ UNCHANGED cffvars
    /\ UNCHANGED <<stubvars, mcvars>>

\* A run that encrypts: the ChakraPasses version draws a key, the
\* standalone version has XOR_KEY.
SERunEncrypt ==
    /\ Len(runs) < MaxRuns
    /\ StringGlobalsToEncrypt(SM, ver) # <<>>
    /\ \E key \in IF ver = "chakra" THEN Keys ELSE {XOR_KEY} :
          /\ SM' = StringEncryptionRun(SM, key, ver, gepKind).Mod
          /\ runs' = Append(runs, RunRecord(key, StringEncryptionRun(SM, key, ver, gepKind), SM))
    /\ UNCHANGED <<SM0, gepKind, ver>>
    /\ UNCHANGED cffvars
    /\ UNCHANGED <<stubvars, mcvars>>

NextSE == SERunNothing \/ SERunEncrypt

vars == <<ver, M0, M, pc, idx, flat, Changed, flattenedFunctions,
          flattenedBlocks, skippedFunctions, errs, PA, SM0, SM, gepKind, runs,
          stub, FM0, FM, fk, Report, mc>>

SpecSE == InitSE /\ [][NextSE]_vars

-----------------------------------------------------------------------------
(* ControlFlowFlatteningPass::run *)

\* flat[i] of a function flattenFunction was not called for.
NotCalled ==
    [called |-> FALSE, ret |-> FALSE, BlockId |-> <<>>, StateVar |-> Undef,
     Demoted |-> Declaration(FALSE)]

Init ==
    /\ ver \in {"chakra", "standalone"}
    /\ M0 \in Modules
    /\ M = M0
    /\ pc = "loop"
    /\ idx = 1
    /\ flat = [i \in DOMAIN M0 |-> NotCalled]
    /\ Changed = FALSE
    /\ flattenedFunctions = 0
    /\ flattenedBlocks = 0
    /\ skippedFunctions = 0
    /\ errs = {}
    /\ PA = ""
    /\ SEIdle
    /\ StubIdle
    /\ MCIdle

\* The loop of run at a declaration, an intrinsic or a function of fewer
\* than two blocks: continue.
RunContinue ==
    /\ pc = "loop" /\ idx <= Len(M)
    /\ M[idx].decl \/ M[idx].intrinsic \/ size(M[idx]) < 2
    /\ idx' = idx + 1
    /\ UNCHANGED <<ver, M0, M, pc, flat, Changed, flattenedFunctions,
                   flattenedBlocks, skippedFunctions, errs, PA>>
    /\ UNCHANGED sevars
    /\ UNCHANGED <<stubvars, mcvars>>

\* The loop of run at a function with unsupported control flow.
RunSkip ==
    /\ pc = "loop" /\ idx <= Len(M)
    /\ ~(M[idx].decl \/ M[idx].intrinsic \/ size(M[idx]) < 2)
    /\ hasUnsupportedControlFlow(M[idx])
    /\ skippedFunctions' = skippedFunctions + 1
    /\ idx' = idx + 1
    /\ UNCHANGED <<ver, M0, M, pc, flat, Changed, flattenedFunctions,
                   flattenedBlocks, errs, PA>>
    /\ UNCHANGED sevars
    /\ UNCHANGED <<stubvars, mcvars>>

\* The loop of run at any other function: flattenFunction, the counters,
\* and in the ChakraPasses version verifyFunction and its error message.
RunFlatten ==
    /\ pc = "loop" /\ idx <= Len(M)
    /\ ~(M[idx].decl \/ M[idx].intrinsic \/ size(M[idx]) < 2)
    /\ ~hasUnsupportedControlFlow(M[idx])
    /\ LET blocksBefore == size(M[idx])
           r == flattenFunction(M[idx], ver)
       IN  /\ M' = [M EXCEPT ![idx] = r.Fn]
           /\ flat' = [flat EXCEPT ![idx] =
                          [called |-> TRUE, ret |-> r.ret,
                           BlockId |-> r.BlockId, StateVar |-> r.StateVar,
                           Demoted |-> demoteValuesToMemory(M[idx], ver)]]
           /\ Changed' = (Changed \/ r.ret)
           /\ flattenedFunctions' = flattenedFunctions + (IF r.ret THEN 1 ELSE 0)
           /\ flattenedBlocks' =
                 flattenedBlocks + (IF r.ret THEN blocksBefore - 1 ELSE 0)
           /\ errs' = IF r.ret /\ ver = "chakra" /\ verifyFunction(r.Fn)
                      THEN errs \cup {idx} ELSE errs
    /\ idx' = idx + 1
    /\ UNCHANGED <<ver, M0, pc, skippedFunctions, PA>>
    /\ UNCHANGED sevars
    /\ UNCHANGED <<stubvars, mcvars>>

\* After the loop: PreservedAnalyses::none() if Changed, else all().
RunReturn ==
    /\ pc = "loop" /\ idx > Len(M)
    /\ pc' = "done"
    /\ PA' = IF Changed THEN "none" ELSE "all"
    /\ UNCHANGED <<ver, M0, M, idx, flat, Changed, flattenedFunctions,
                   flattenedBlocks, skippedFunctions, errs>>
    /\ UNCHANGED sevars
    /\ UNCHANGED <<stubvars, mcvars>>

Next == RunContinue \/ RunSkip \/ RunFlatten \/ RunReturn

Spec == Init /\ [][Next]_vars

-----------------------------------------------------------------------------
(* Properties of control-flow flattening *)

Done == pc = "done"

\* flattenFunction was called for function i and returned true.
Flattened(i) == flat[i].called /\ flat[i].ret

\* The operands of Fn's instructions that are values of instructions of
\* another block, as <<user, operand index, defining instruction>>.
CrossBlockOperands(Fn) ==
    {u \in UNION {{<<I.id, k, I.ops[k].v>> :
                      k \in {j \in DOMAIN I.ops : I.ops[j].k = "i"}} :
                  I \in InstsOf(Fn)} :
        HasInst(Fn, u[3]) /\ getParent(Fn, u[3]) # getParent(Fn, u[1])}

\* C1: for every flattened function and every argument, the execution of
\* the flattened function visits the original blocks in the same order as
\* the original function, makes the same calls, and ends in the same way
\* with the same returned value; the dispatcher is the only addition.
C1_SameBehaviour ==
    Done => \A i \in DOMAIN M :
                Flattened(i) =>
                    \A a \in 0..MaxArg : Observe(M0[i], a) = Observe(M[i], a)

\* C2: a function that verifies before flattenFunction is called for it
\* verifies after: every block has one terminator, at its end, and every
\* use of an instruction's value is dominated by its definition.
C2_StaysWellFormed ==
    Done => \A i \in DOMAIN M :
                flat[i].called /\ WellFormed(M0[i]) => WellFormed(M[i])

\* C3: when flattenFunction returns false for a function, the function is
\* exactly what it was before the call.
C3_NoPartialTransformation ==
    Done => \A i \in DOMAIN M :
                flat[i].called /\ ~flat[i].ret => M[i] = M0[i]

\* C4: a flattened function the verifier rejects is rolled back to what it
\* was before, and run goes on to the next function, so that when run
\* returns no function it flattened fails verification.
C4_RollbackOnVerifierFailure ==
    /\ \A i \in errs : i < idx /\ M[i] = M0[i]
    /\ Done => \A i \in DOMAIN M :
                  Flattened(i) /\ verifyFunction(M[i]) => M[i] = M0[i]

\* C9: when demoteValuesToMemory returns, the function holds no phi.
C9_NoPhiAfterDemotion ==
    \A i \in DOMAIN flat :
        flat[i].called => \A I \in InstsOf(flat[i].Demoted) : I.op # "phi"

\* C9's case: a function with a phi has been demoted.
C9_Witness ==
    \E i \in DOMAIN flat :
        /\ flat[i].called
        /\ \E I \in InstsOf(M0[i]) : I.op = "phi" /\ uses(M0[i], I.id) # <<>>
        /\ flat[i].Demoted # M0[i]

\* C10: when demoteValuesToMemory returns, the only values an instruction
\* takes from another block are stack slots allocated in the entry block,
\* which it loads from or stores to.
C10_NoCrossBlockOperand ==
    \A i \in DOMAIN flat :
        flat[i].called =>
            \A u \in CrossBlockOperands(flat[i].Demoted) :
                /\ GetInst(flat[i].Demoted, u[3]).op = "alloca"
                /\ getParent(flat[i].Demoted, u[3]) = getEntryBlock(flat[i].Demoted).name
                /\ GetInst(flat[i].Demoted, u[1]).op \in {"load", "store"}

-----------------------------------------------------------------------------
(* Properties of string encryption *)

\* What still refers to global `name` in module Mod.
HasUsers(Mod, name) ==
    \/ \E p \in DOMAIN Mod.insts : Mod.insts[p].arg = GlobalRef(name)
    \/ \E j \in DOMAIN Mod.constUsers : Mod.constUsers[j] = name
    \/ \E j \in DOMAIN Mod.compilerUsed : Mod.compilerUsed[j] = name

\* The globals that hold ciphertext: the members of llvm.compiler.used
\* that are in the module.
EncryptedGlobals(Mod) == Range(Mod.compilerUsed) \cap GlobalNames(Mod)

DecryptCalls(Mod) == {p \in DOMAIN Mod.insts : Mod.insts[p].op = "decrypt"}

\* C5: run returns "none" exactly when it changed the module, for string
\* encryption (every run so far) and for control-flow flattening.
C5_NoneIffMutated ==
    /\ \A j \in DOMAIN runs :
          runs[j].PA = "none" <=> runs[j].after # runs[j].before
    /\ Done => (PA = "none" <=> M # M0)

\* C6: for every collected global with bytes P and the run's key K, the
\* replacement global holds C with C[i] = P[i] XOR K at every index i, so
\* that xoring C with K gives P back.
C6_CiphertextIsXor ==
    \A j \in DOMAIN runs :
        \A c \in DOMAIN runs[j].collected :
            LET name == runs[j].collected[c]
                P == getGlobal(runs[j].before, name).bytes
            IN  /\ name \o ".enc" \in GlobalNames(runs[j].after)
                /\ getGlobal(runs[j].after, name \o ".enc").bytes
                      = [i \in DOMAIN P |-> Xor(P[i], runs[j].key)]
                /\ encryptString(getGlobal(runs[j].after, name \o ".enc").bytes,
                                 runs[j].key) = P

\* C7: a run erases a global only when nothing refers to it any more; a
\* global a constant still refers to stays in the module.
C7_ErasedOnlyWithoutUsers ==
    \A j \in DOMAIN runs :
        \A name \in GlobalNames(runs[j].before) \ GlobalNames(runs[j].after) :
            ~HasUsers(runs[j].after, name)

\* C8: a second run collects no global the first run created, and leaves
\* the encrypted globals and the decrypt calls of the first run as they are.
C8_SecondRunAddsNothing ==
    Len(runs) >= 2 =>
        /\ Range(runs[2].collected) \cap EncryptedGlobals(runs[1].after) = {}
        /\ EncryptedGlobals(runs[2].after) = EncryptedGlobals(runs[1].after)
        /\ Cardinality(DecryptCalls(runs[2].after))
              = Cardinality(DecryptCalls(runs[1].after))

-----------------------------------------------------------------------------
(* Properties of the flattened control-flow graph *)

\* The original non-entry blocks of Fn that do not end in a return or an
\* unreachable.
NonTerminalBlocks(Fn) ==
    {Fn.blocks[b].name : b \in {c \in DOMAIN Fn.blocks :
        c # 1 /\ getTerminator(Fn.blocks[c]).op \notin {"ret", "unreachable"}}}

\* C11: in a flattened function every original non-entry block that does
\* not end in a return or unreachable has the dispatcher as its one and only
\* predecessor; no original edge into such a block is left.
C11_OnlyDispatcherPredecessor ==
    Done => \A i \in DOMAIN M :
                Flattened(i) =>
                    \A n \in NonTerminalBlocks(M0[i]) :
                        /\ n \in BlockNames(M[i])
                        /\ predecessors(M[i], n) = {DispatchName}

\* The blocks of Fn with the given name.
BlocksNamed(Fn, name) == {b \in DOMAIN Fn.blocks : Fn.blocks[b].name = name}

\* Block B ends in a switch on a value that a load of B reads from slot.
SwitchesOnLoadOf(B, slot) ==
    /\ HasTerminator(B)
    /\ getTerminator(B).op = "switch"
    /\ \E j \in DOMAIN B.insts :
          /\ B.insts[j] = LoadInst(B.insts[j].id, slot)
          /\ getTerminator(B).ops[1] = InstOp(B.insts[j].id)

TerminalBlocks(Fn) ==
    {Fn.blocks[b].name : b \in {c \in DOMAIN Fn.blocks :
        getTerminator(Fn.blocks[c]).op \in {"ret", "unreachable"}}}

\* C13: every return and unreachable of the original function is still in
\* the flattened function, of the same kind and in the same block, and that
\* block holds the instructions it held before.
C13_ReturnsSurvive ==
    Done => \A i \in DOMAIN M :
                Flattened(i) =>
                    \A n \in TerminalBlocks(M0[i]) :
                        /\ n \in BlockNames(M[i])
                        /\ GetBlock(M[i], n).insts = GetBlock(M0[i], n).insts

-----------------------------------------------------------------------------
(* Properties of ControlFlowFlatteningPass::run *)

\* A declaration, an intrinsic or a function of fewer than two blocks.
NotADefinitionOfTwoBlocks(Fn) == Fn.decl \/ Fn.intrinsic \/ Len(Fn.blocks) < 2

\* A defined function of two blocks or more with an exception-handling pad
\* or a terminator other than br, conditional br, switch, ret, unreachable.
HasPadOrOtherTerminator(Fn) ==
    /\ ~NotADefinitionOfTwoBlocks(Fn)
    /\ \E b \in DOMAIN Fn.blocks :
          \/ Fn.blocks[b].ehpad
          \/ Fn.blocks[b].insts[Len(Fn.blocks[b].insts)].op
                \notin {"br", "condbr", "switch", "ret", "unreachable"}

\* C14: a function with a pad or another terminator is left as it was and
\* counted once in skippedFunctions; declarations, intrinsics and functions
\* of fewer than two blocks are left as they were and not counted.
C14_SkippedUntouchedAndCounted ==
    /\ \A i \in DOMAIN M :
          NotADefinitionOfTwoBlocks(M0[i]) \/ HasPadOrOtherTerminator(M0[i])
              => M[i] = M0[i] /\ ~flat[i].called
    /\ pc \in {"loop", "done"} =>
          skippedFunctions =
              Cardinality({i \in DOMAIN M : i < idx /\ HasPadOrOtherTerminator(M0[i])})

\* C14's case: run has returned for a module with a declaration and a
\* function it skipped.
C14_Witness ==
    /\ Done
    /\ skippedFunctions = 1
    /\ \E i \in DOMAIN M : M0[i].decl
    /\ \E i \in DOMAIN M : HasPadOrOtherTerminator(M0[i])

\* The cases of the dispatcher switch of Fn, in order: <<id, block>>.
DispatchCases(Fn) ==
    LET Sw == getTerminator(GetBlock(Fn, DispatchName))
    IN  [k \in 1..(Len(Sw.bbs) - 1) |-> <<Sw.ops[k + 1].v, Sw.bbs[k + 1]>>]

\* C15: in a flattened function of N non-entry blocks BlockId gives every
\* non-entry block an id, different blocks different ids, the ids are
\* exactly 1..N, and the dispatcher switch has exactly one case per id,
\* which leads to the block of that id.
C15_DenseBlockIds ==
    \A i \in DOMAIN flat :
        Flattened(i) =>
            LET N == Len(M0[i].blocks) - 1
                Id == flat[i].BlockId
                nonEntry == {M0[i].blocks[b].name : b \in 2..Len(M0[i].blocks)}
                cases == DispatchCases(M[i])
            IN  /\ DOMAIN Id = nonEntry
                /\ \A m, n \in DOMAIN Id : m # n => Id[m] # Id[n]
                /\ {Id[n] : n \in DOMAIN Id} = 1..N
                /\ Len(cases) = N
                /\ \A n \in DOMAIN Id :
                      Cardinality({k \in DOMAIN cases : cases[k][1] = Id[n]}) = 1
                      /\ \E k \in DOMAIN cases : cases[k] = <<Id[n], n>>

-----------------------------------------------------------------------------
(* Properties of the decrypt stub and of a run that finds no string *)

\* The decrypt stubs of a module: its functions named
\* chakravyuha_decrypt_string, in module order.
DecryptStubs(Mod) ==
    SelectSeq(Mod.functions, LAMBDA F : F.name = "chakravyuha_decrypt_string")

\* C16: after any number of runs the module has exactly one function named
\* chakravyuha_decrypt_string once a run has injected it, never more than
\* one, and a run that finds the function in the module leaves it as it is.
C16_StubInjectedOnce ==
    /\ Len(DecryptStubs(SM)) <= 1
    /\ \A j \in DOMAIN runs :
          /\ runs[j].collected # <<>> => Len(DecryptStubs(runs[j].after)) = 1
          /\ DecryptStubs(runs[j].before) # <<>>
                => runs[j].after.functions = runs[j].before.functions

\* C16's case: a second run has called injectDecryptionStub, with a key
\* other than the first run's.
C16_Witness ==
    /\ Len(runs) = 2
    /\ runs[1].collected # <<>> /\ runs[2].collected # <<>>
    /\ runs[1].key # runs[2].key
    /\ Len(DecryptStubs(SM)) = 1

\* C17: a run on a module with no eligible constant string global leaves
\* the module as it is (no stub, no global added or removed, no instruction
\* inserted) and returns "all".
C17_NoStringNoChange ==
    \A j \in DOMAIN runs :
        (\A g \in DOMAIN runs[j].before.globals :
            ~(/\ runs[j].before.globals[g].constant
              /\ ver = "standalone" =>
                    /\ Len(runs[j].before.globals[g].name) >= 4
                    /\ SubSeq(runs[j].before.globals[g].name, 1, 4) = ".str"))
        => /\ runs[j].after = runs[j].before
           /\ runs[j].PA = "all"
           /\ runs[j].Changed = FALSE

\* C17's case: a run on a module with a string global that instructions
\* use, but that is not eligible.
C17_Witness ==
    /\ runs # <<>>
    /\ runs[1].collected = <<>>
    /\ runs[1].before.globals # <<>>
    /\ runs[1].before.insts # <<>>

-----------------------------------------------------------------------------
(* Reproducibility *)

\* The keys a run of this version may use, whatever the host does: the
\* ChakraPasses version draws one from a generator it seeds from
\* std::random_device, the standalone version has XOR_KEY.
DrawnKeys(v) == IF v = "chakra" THEN Keys ELSE {XOR_KEY}

\* C18: a run on the same input gives the same output.  For string
\* encryption: whatever key a second run on the module runs[j].before may
\* use, it gives the module the first one gave (same key, same ciphertext,
\* same inserted instructions).  For flattening: flattenFunction on the
\* original function gives the same function and the same block ids again.
C18_SameInputSameOutput ==
    /\ \A j \in DOMAIN runs :
          runs[j].collected # <<>> =>
              \A key \in DrawnKeys(ver) :
                  /\ key = runs[j].key
                  /\ StringEncryptionRun(runs[j].before, key, ver, gepKind).Mod
                        = runs[j].after
    /\ \A i \in DOMAIN flat :
          flat[i].called =>
              /\ flattenFunction(M0[i], ver).Fn = M[i]
              /\ flattenFunction(M0[i], ver).BlockId = flat[i].BlockId

-----------------------------------------------------------------------------
(* The decrypt stub at run time, and the buffers the rewritten uses read *)

\* The body of chakravyuha_decrypt_string: for index = 0 .. length-1,
\* dest[index] = src[index] ^ key.  Reading src past its end gives Undef.
RECURSIVE loop_header(_, _, _, _, _)
loop_header(dest, src, length, key, index) ==
    IF index < length
    THEN loop_header(
            [dest EXCEPT ![index + 1] =
                IF index + 1 <= Len(src) THEN Xor(src[index + 1], key) ELSE Undef],
            src, length, key, index + 1)
    ELSE dest

\* A call of the stub on a destination buffer of destSize bytes that holds
\* nothing yet: the bytes of the buffer after the call.
chakravyuha_decrypt_string(destSize, src, length, key) ==
    loop_header([i \in 1..destSize |-> Undef], src, length, key, 0)

\* The instructions of Mod that read buffer b.
BufferReaders(Mod, b) == {p \in DOMAIN Mod.insts : Mod.insts[p].arg = BufRef(b)}

\* The decrypt calls of Mod that write buffer b.
BufferWriters(Mod, b) ==
    {p \in DOMAIN Mod.insts : Mod.insts[p].op = "decrypt" /\ Mod.insts[p].dest = b}

\* C19: for every use of a collected global G that a run rewrote, the run
\* allocated a buffer of its own, of |C| bytes, read by that user only, and
\* put directly before the user a call decrypt(buffer, G.enc, |C|); and
\* after that call the buffer holds the plaintext P of G.
C19_PerUseBufferHoldsPlaintext ==
    \A j \in DOMAIN runs :
        \A b \in (Len(runs[j].before.bufs) + 1)..Len(runs[j].after.bufs) :
            LET Mod == runs[j].after
                readers == BufferReaders(Mod, b)
                p == CHOOSE q \in readers : TRUE
                call == Mod.insts[p - 1]
            IN  /\ Cardinality(readers) = 1
                /\ BufferWriters(Mod, b) = {p - 1}
                /\ call.arg.k = "global"
                /\ \E c \in DOMAIN runs[j].collected :
                      LET G == runs[j].collected[c]
                          P == getGlobal(runs[j].before, G).bytes
                          C == getGlobal(Mod, G \o ".enc").bytes
                      IN  /\ call.arg = GlobalRef(G \o ".enc")
                          /\ Mod.bufs[b] = Len(C)
                          /\ call.len = Len(C)
                          /\ Len(DecryptStubs(Mod)) = 1
                          /\ chakravyuha_decrypt_string(Mod.bufs[b], C, call.len,
                                DecryptStubs(Mod)[1].key) = P

\* C20: the key of a run that encrypts is one byte in 1..255, and every
\* byte of every ciphertext differs from the plaintext byte at its index.
C20_KeyNonZeroCiphertextDiffers ==
    \A j \in DOMAIN runs :
        runs[j].collected # <<>> =>
            /\ runs[j].key \in 1..255
            /\ \A c \in DOMAIN runs[j].collected :
                  LET P == getGlobal(runs[j].before, runs[j].collected[c]).bytes
                      C == getGlobal(runs[j].after, runs[j].collected[c] \o ".enc").bytes
                  IN  /\ Len(C) = Len(P)
                      /\ \A i \in DOMAIN P : C[i] # P[i]

-----------------------------------------------------------------------------
(* Properties of the rewritten terminators *)

\* The registers after the compares and selects of a block, from registers
\* regs on (the instructions buildNextStateForTerm inserts are of these two
\* kinds).
RECURSIVE SelectChain(_, _, _, _)
SelectChain(insts, j, regs, arg) ==
    IF j > Len(insts) THEN regs
    ELSE LET I == insts[j]
             v(k) == Eval(I.ops[k], regs, arg)
         IN  SelectChain(insts, j + 1,
                CASE I.op = "icmp_eq" ->
                        [regs EXCEPT ![I.id] = IF v(1) = v(2) THEN 1 ELSE 0]
                  [] I.op = "select" ->
                        [regs EXCEPT ![I.id] = IF v(1) # 0 THEN v(2) ELSE v(3)]
                  [] OTHER -> regs,
                arg)

\* Block B of Fn has been rewritten: it ends in a store to the state slot
\* and a branch to the dispatcher.
IsRewritten(B, StateVar) ==
    /\ Len(B.insts) >= 2
    /\ B.insts[Len(B.insts)] = Inst(B.insts[Len(B.insts)].id, "br", <<>>, <<DispatchName>>)
    /\ B.insts[Len(B.insts) - 1].op = "store"
    /\ B.insts[Len(B.insts) - 1].ops[2] = InstOp(StateVar)

\* The value the rewritten block B stores into the state slot when the
\* condition Cond of its former terminator has value c.
StoredState(Fn, B, Cond, c) ==
    Eval(B.insts[Len(B.insts) - 1].ops[1],
         SelectChain(B.insts, 1,
                     [id \in 0..(Fn.next - 1) |->
                         IF Cond = InstOp(id) THEN c ELSE Undef],
                     c),
         c)

\* The blocks of function i (as demoteValuesToMemory left it) that end in a
\* terminator of kind op and are still in the flattened function.
BlocksEndingIn(i, op) ==
    {b \in DOMAIN flat[i].Demoted.blocks :
        /\ getTerminator(flat[i].Demoted.blocks[b]).op = op
        /\ flat[i].Demoted.blocks[b].name \in BlockNames(M[i])}

\* C21: for every switch that was rewritten and every value of its
\* condition, the state stored is the id of the block the switch went to
\* for that value (the case's successor, else the default's); a switch none
\* of whose successors has an id is left as it was.
C21_SwitchNextState ==
    \A i \in DOMAIN flat :
        Flattened(i) =>
            \A b \in BlocksEndingIn(i, "switch") :
                LET T == getTerminator(flat[i].Demoted.blocks[b])
                    B == GetBlock(M[i], flat[i].Demoted.blocks[b].name)
                    Id == flat[i].BlockId
                IN  IF \A k \in DOMAIN T.bbs : T.bbs[k] \notin DOMAIN Id
                    THEN getTerminator(B) = T
                    ELSE IsRewritten(B, flat[i].StateVar) =>
                            \A c \in 0..MaxArg :
                                /\ SwitchTarget(T, c) \in DOMAIN Id
                                /\ StoredState(M[i], B, T.ops[1], c)
                                      = Id[SwitchTarget(T, c)]

\* C21's case: a switch with a case that is taken has been rewritten.
C21_Witness ==
    \E i \in DOMAIN flat :
        /\ Flattened(i)
        /\ \E b \in BlocksEndingIn(i, "switch") :
              /\ IsRewritten(GetBlock(M[i], flat[i].Demoted.blocks[b].name),
                             flat[i].StateVar)
              /\ Len(getTerminator(flat[i].Demoted.blocks[b]).bbs) >= 2

\* The instructions of block B that store into the state slot.
StateStores(B, StateVar) ==
    {j \in DOMAIN B.insts :
        B.insts[j].op = "store" /\ B.insts[j].ops[2] = InstOp(StateVar)}

\* Block B ends in  s = select Cond, t, f;  store s, StateVar;
\* br cff.dispatch,  and stores into the state slot nowhere else.
EndsInSelectStore(B, StateVar, Cond, t, f) ==
    LET n == Len(B.insts) IN
    /\ n >= 3
    /\ IsRewritten(B, StateVar)
    /\ B.insts[n - 2].op = "select"
    /\ B.insts[n - 2].ops = <<Cond, ConstOp(t), ConstOp(f)>>
    /\ B.insts[n - 1].ops[1] = InstOp(B.insts[n - 2].id)
    /\ StateStores(B, StateVar) = {n - 1}

\* The flattened blocks of function i that ended in a conditional branch
\* with exactly one successor that has an id.
OneSidedBranches(i) ==
    {b \in BlocksEndingIn(i, "condbr") :
        LET T == getTerminator(flat[i].Demoted.blocks[b]) IN
        /\ flat[i].Demoted.blocks[b].name \in DOMAIN flat[i].BlockId
        /\ (T.bbs[1] \in DOMAIN flat[i].BlockId)
              # (T.bbs[2] \in DOMAIN flat[i].BlockId)}

TwoSidedBranches(i) ==
    {b \in BlocksEndingIn(i, "condbr") :
        LET T == getTerminator(flat[i].Demoted.blocks[b]) IN
        /\ flat[i].Demoted.blocks[b].name \in DOMAIN flat[i].BlockId
        /\ T.bbs[1] \in DOMAIN flat[i].BlockId
        /\ T.bbs[2] \in DOMAIN flat[i].BlockId}

-----------------------------------------------------------------------------
(* Properties of the removal of phis *)

\* Function i as the first loop of demoteValuesToMemory leaves it: the phis
\* are gone, the other values are not yet demoted.
PhisRemoved(i) ==
    DemotePhis(M0[i], PhisToRemove(M0[i]), 1, AllocaAnchor(M0[i]), ver)

\* The position of instruction id in its block.
PosInBlock(Fn, id) ==
    LET insts == GetBlock(Fn, getParent(Fn, id)).insts
    IN  CHOOSE j \in DOMAIN insts : insts[j].id = id

\* Operand op is a load from an alloca of the entry block.
IsSlotLoad(Fn, op) ==
    /\ op.k = "i"
    /\ \E I \in InstsOf(Fn) :
          /\ I.id = op.v /\ I.op = "load" /\ I.ops[1].k = "i"
          /\ \E A \in InstsOf(Fn) :
                /\ A.id = I.ops[1].v /\ A.op = "alloca"
                /\ getParent(Fn, A.id) = getEntryBlock(Fn).name

\* The load l sits right before its user U in U's block: between the two
\* there are only loads.
RightBefore(Fn, l, U) ==
    /\ getParent(Fn, l) = getParent(Fn, U)
    /\ PosInBlock(Fn, l) < PosInBlock(Fn, U)
    /\ \A j \in (PosInBlock(Fn, l) + 1)..(PosInBlock(Fn, U) - 1) :
          GetBlock(Fn, getParent(Fn, U)).insts[j].op = "load"

\* The uses <<U, k>> of the phis of function i by instructions U that are
\* not phis themselves.
PhiUses(i) ==
    UNION {Range(uses(M0[i], P.id)) : P \in {I \in InstsOf(M0[i]) : I.op = "phi"}}

\* C23: after the removal of the phis, every operand of an instruction U
\* that was a phi is a load from the phi's slot, and the load was inserted
\* right before U in U's block.
C23_ReloadAtUser ==
    \A i \in DOMAIN flat :
        flat[i].called =>
            \A u \in PhiUses(i) :
                GetInst(M0[i], u[1]).op # "phi" =>
                    LET R == PhisRemoved(i)
                        op == GetInst(R, u[1]).ops[u[2]]
                    IN  /\ IsSlotLoad(R, op)
                        /\ RightBefore(R, op.v, u[1])

\* The slot of phi P of function i: the alloca the loads that replaced the
\* uses of P read.
SlotOf(i, P) ==
    LET u == CHOOSE u \in Range(uses(M0[i], P)) : GetInst(M0[i], u[1]).op # "phi"
    IN  GetInst(PhisRemoved(i), GetInst(PhisRemoved(i), u[1]).ops[u[2]].v).ops[1].v

\* The positions in the entry block of Fn of the stores of val into slot.
EntryStores(Fn, val, slot) ==
    {j \in DOMAIN getEntryBlock(Fn).insts :
        getEntryBlock(Fn).insts[j] =
            StoreInst(getEntryBlock(Fn).insts[j].id, val, slot)}

\* An execution of Fn from state st on reads slot only after a store into
\* it has left a value other than undef there.
RECURSIVE ReadsDefined(_, _, _, _)
ReadsDefined(Fn, st, arg, slot) ==
    IF st.status # "run" THEN TRUE
    ELSE LET insts == GetBlock(Fn, st.bb).insts
             I == insts[st.i]
         IN  IF st.i <= Len(insts) /\ I.op = "load" /\ I.ops[1] = InstOp(slot)
                /\ st.mem[slot] = Undef
             THEN FALSE
             ELSE ReadsDefined(Fn, ExecStep(Fn, st, arg), arg, slot)

\* The phis of function i that have a user that is not a phi.
DemotedPhis(i) ==
    {P.id : P \in {I \in InstsOf(M0[i]) :
                      /\ I.op = "phi"
                      /\ \E u \in Range(uses(M0[i], I.id)) :
                            GetInst(M0[i], u[1]).op # "phi"}}

\* C24: for every demoted phi P the entry block ends in a store of undef
\* into slot(P); when the entry block is an incoming block of P the store of
\* the incoming value comes after it; and no execution reads slot(P) before
\* a value has been stored into it.
C24_SlotWrittenBeforeRead ==
    \A i \in DOMAIN flat :
        flat[i].called =>
            \A P \in DemotedPhis(i) :
                LET R == PhisRemoved(i)
                    PN == GetInst(M0[i], P)
                    slot == SlotOf(i, P)
                    undefs == EntryStores(R, UndefOp, slot)
                IN  /\ undefs # {}
                    /\ \A k \in DOMAIN PN.bbs :
                          PN.bbs[k] = getEntryBlock(R).name =>
                              \E j \in EntryStores(R, PN.ops[k], slot) :
                                  \A u \in undefs : u < j
                    /\ \A arg \in 0..MaxArg :
                          ReadsDefined(R, ExecInit(R), arg, slot)

-----------------------------------------------------------------------------
(* A call of chakravyuha_decrypt_string(dest_ptr, src_ptr, length), block   *)
(* by block.  The memory at src_ptr and at dest_ptr is MaxStubLen + 1 bytes *)
(* each, numbered from 0; a byte of dest nothing was stored to is Undef.    *)

\* The largest value of Int32Ty read as a signed number.
Int32Max == 2147483647

\* add i32 a, 1: the sum wraps around to the smallest value.
CreateAddOne(a) == IF a = Int32Max THEN (-Int32Max) - 1 ELSE a + 1

\* A comparison that also holds for equal operands (signed less-or-equal).
CreateICmpSLT_OrEqual(a, b) == a <= b

\* The loop condition: icmp slt i32 %index, %length.
CreateICmpSLT(a, b) == a < b

\* The lengths a call is made with: none of them longer than the memory.
StubLengths == {(-Int32Max) - 1, -1} \cup (0..MaxStubLen)

InitStub ==
    /\ ver \in {"chakra", "standalone"}
    /\ \E key \in IF ver = "chakra" THEN Keys ELSE {XOR_KEY} :
       \E src \in [0..MaxStubLen -> Bytes] :
       \E length \in StubLengths :
          stub = [pc |-> "entry", index |-> 0, length |-> length, key |-> key,
                  src |-> src, dest |-> [i \in 0..MaxStubLen |-> Undef],
                  writes |-> <<>>, iters |-> 0]
    /\ CFFIdle
    /\ SEIdle
    /\ MCIdle

\* entry: br loop_header; the phi takes 0 on the edge from entry.
StubEntry ==
    /\ stub.pc = "entry"
    /\ stub' = [stub EXCEPT !.pc = "loop_header", !.index = 0]
    /\ UNCHANGED <<ver, cffvars, sevars, mcvars>>

\* loop_header: loop_cond = icmp slt index, length;
\* br loop_cond, loop_body, loop_exit.
StubLoopHeader ==
    /\ stub.pc = "loop_header"
    /\ stub' = [stub EXCEPT !.pc = IF CreateICmpSLT(stub.index, stub.length)
                                   THEN "loop_body" ELSE "loop_exit"]
    /\ UNCHANGED <<ver, cffvars, sevars, mcvars>>

\* loop_body: dest[index] = src[index] ^ key; next_index = index + 1;
\* br loop_header, where the phi takes next_index.
StubLoopBody ==
    /\ stub.pc = "loop_body"
    /\ stub.index \in DOMAIN stub.src
    /\ stub' = [stub EXCEPT
                  !.dest[stub.index] = Xor(stub.src[stub.index], stub.key),
                  !.writes = Append(stub.writes, stub.index),
                  !.iters = stub.iters + 1,
                  !.index = CreateAddOne(stub.index),
                  !.pc = "loop_header"]
    /\ UNCHANGED <<ver, cffvars, sevars, mcvars>>

\* loop_exit: ret void.
StubLoopExit ==
    /\ stub.pc = "loop_exit"
    /\ stub' = [stub EXCEPT !.pc = "done"]
    /\ UNCHANGED <<ver, cffvars, sevars, mcvars>>

NextStub == StubEntry \/ StubLoopHeader \/ StubLoopBody \/ StubLoopExit

\* The processor that runs the call goes on as long as there is a next
\* instruction.
SpecStub == InitStub /\ [][NextStub]_vars /\ WF_vars(NextStub)

StubReturned == stub.pc = "done"

\* What a call with length n has done when it returns.
StubPost ==
    LET n == IF stub.length > 0 THEN stub.length ELSE 0 IN
    /\ stub.iters = n
    /\ stub.writes = [j \in 1..n |-> j - 1]
    /\ \A i \in DOMAIN stub.dest :
          stub.dest[i] = IF i < n THEN Xor(stub.src[i], stub.key) ELSE Undef

\* C25: a call of the stub with length n returns, and when it returns the
\* loop body has run max(n, 0) times and has written dest[i] = src[i] ^ key
\* for i = 0, 1, ..., n - 1 in this order and nothing else; for n <= 0 it
\* has written nothing.
C25_StubTerminates == <>StubReturned /\ [](StubReturned => StubPost)

\* C25's case: calls that have returned, one with a length of several bytes
\* and (in another behaviour) one with a negative length.
C25_Witness == StubReturned /\ stub.iters = MaxStubLen

-----------------------------------------------------------------------------
(* Properties of the executions of a flattened function *)

\* The execution of Fn from state st on: whenever it is at the dispatcher's
\* switch the state slot holds one of the switch's case values, a number in
\* 1..N, and it never enters cff.default.
RECURSIVE DispatchesToCase(_, _, _, _, _)
DispatchesToCase(Fn, st, arg, StateVar, N) ==
    IF st.status # "run" THEN st.bb # DefaultName
    ELSE LET insts == GetBlock(Fn, st.bb).insts
             I == insts[st.i]
         IN  /\ st.bb # DefaultName
             /\ (st.bb = DispatchName /\ st.i <= Len(insts) /\ I.op = "switch") =>
                    /\ st.mem[StateVar] \in 1..N
                    /\ \E k \in 2..Len(I.ops) : I.ops[k] = ConstOp(st.mem[StateVar])
             /\ DispatchesToCase(Fn, ExecStep(Fn, st, arg), arg, StateVar, N)

\* C27: in every execution of a flattened function the state slot holds, each
\* time the dispatcher's switch runs, the id of a flattened block (a number
\* in 1..N that is a case of the switch), and control never reaches
\* cff.default.
C27_DispatcherNeverDefaults ==
    \A i \in DOMAIN flat :
        Flattened(i) =>
            \A arg \in 0..MaxArg :
                DispatchesToCase(M[i], ExecInit(M[i]), arg, flat[i].StateVar,
                                 Cardinality(DOMAIN flat[i].BlockId))

\* C27's case: an execution of a flattened function has run the dispatcher
\* three times or more.
C27_Witness ==
    \E i \in DOMAIN flat :
        /\ Flattened(i)
        /\ \E arg \in 0..MaxArg : ExecFrom(M[i], ExecInit(M[i]), arg).hops >= 3

-----------------------------------------------------------------------------
(* Properties of the key of the decrypt stub *)

\* The decrypt calls run j inserted: those of the module after the run that
\* read a global the run created.
CallsInsertedBy(j) ==
    {p \in DOMAIN runs[j].after.insts :
        /\ runs[j].after.insts[p].op = "decrypt"
        /\ runs[j].after.insts[p].arg.k = "global"
        /\ runs[j].after.insts[p].arg.name \notin GlobalNames(runs[j].before)}

\* C28: after any sequence of runs, every '.enc' global handed to the decrypt
\* stub was encrypted with the key in the stub's body: a run that inserts a
\* call of the stub on a global it encrypted with its key finds that key in
\* the stub.
C28_StubKeyIsRunKey ==
    \A j \in DOMAIN runs :
        CallsInsertedBy(j) # {} =>
            /\ Len(DecryptStubs(runs[j].after)) = 1
            /\ DecryptStubs(runs[j].after)[1].key = runs[j].key

-----------------------------------------------------------------------------
(* Properties of the values the reloads of a phi yield *)

\* The values the operands us (pairs <<user, operand number>>) have each
\* time their user executes, in the execution of Fn from state st on.
RECURSIVE UseValues(_, _, _, _, _)
UseValues(Fn, st, arg, us, seen) ==
    IF st.status # "run" THEN seen
    ELSE LET insts == GetBlock(Fn, st.bb).insts
             I == insts[st.i]
             mine == IF st.i > Len(insts) THEN {}
                     ELSE {u \in us : u[1] = I.id}
             vals == IF mine = {} THEN <<>>
                     ELSE <<[u \in mine |-> Eval(I.ops[u[2]], st.regs, arg)]>>
         IN  UseValues(Fn, ExecStep(Fn, st, arg), arg, us, seen \o vals)

\* The uses of the phis of function i by instructions that are not phis.
InstPhiUses(i) == {u \in PhiUses(i) : GetInst(M0[i], u[1]).op # "phi"}

\* C29: in every execution, each time a user of a former phi P executes,
\* the load that replaced P yields the value P has at that point in the
\* function before the removal (the value P took at the most recent entry
\* into its block).
C29_ReloadYieldsPhiValue ==
    \A i \in DOMAIN flat :
        flat[i].called =>
            \A arg \in 0..MaxArg :
                UseValues(PhisRemoved(i), ExecInit(PhisRemoved(i)), arg,
                          InstPhiUses(i), <<>>)
                    = UseValues(M0[i], ExecInit(M0[i]), arg, InstPhiUses(i), <<>>)

-----------------------------------------------------------------------------
(* FakeCodeInsertionPass: insertFakeLoop, insertFakeConditional,            *)
(* insertFakeBlock.  The bogus arithmetic of a fake block is arithmetic on  *)
(* constants, which the IRBuilder folds into one constant: BogusOp stands   *)
(* for it, and of the number of bogus operations drawn only the report's    *)
(* counter keeps a trace.                                                   *)

MAX_FAKE_BLOCKS_PER_FUNCTION == 10
MAX_FAKE_LOOPS_PER_FUNCTION == 5
MAX_FAKE_CONDITIONALS_PER_FUNCTION == 8
MAX_FAKE_INSTRUCTIONS_PER_BLOCK == 20

BogusOp == [k |-> "bogus", v |-> 0]

\* A condition that is the constant true.
FalseCondition_True == ConstOp(1)

\* Builder.getFalse()
FalseCondition == ConstOp(0)

\* BasicBlock::Create(Ctx, base, F): the block is appended to the function,
\* and its name is made unique with a number after it.
FreshName(Fn, base) ==
    IF base \notin BlockNames(Fn) THEN base
    ELSE base \o ToString(CHOOSE k \in 1..Len(Fn.blocks) :
                    /\ (base \o ToString(k)) \notin BlockNames(Fn)
                    /\ \A j \in 1..(k - 1) : (base \o ToString(j)) \in BlockNames(Fn))

RECURSIVE CreateBlocks(_, _, _)
CreateBlocks(Fn, names, j) ==
    IF j > Len(names) THEN Fn
    ELSE CreateBlocks(CreateBlock(Fn, names[j]), names, j + 1)

\* IRBuilder(BB).CreateX: the new instruction at the end of the block.
AppendInst(Fn, name, op, ops, bbs) == InsertAtEnd(Fn, name, Inst(Fn.next, op, ops, bbs))

\* PHINode::addIncoming
addIncoming(Fn, phi, val, bb) ==
    LET bi == ParentIdx(Fn, phi)
        j == PosIn(Fn.blocks[bi].insts, phi)
    IN  [Fn EXCEPT !.blocks[bi].insts[j].ops = Append(@, val),
                   !.blocks[bi].insts[j].bbs = Append(@, bb)]

\* The terminator of block After is erased and replaced by
\* br FalseCondition, Fake, OrigSuccessor.
RedirectToFake(Fn, After, Fake, OrigSuccessor) ==
    AppendInst(eraseFromParent(Fn, getTerminator(GetBlock(Fn, After)).id),
               After, "condbr", <<FalseCondition>>, <<Fake, OrigSuccessor>>)

\* A fake block's end: the volatile store to the dummy variable and a branch.
StoreAndBr(Fn, name, dummyVar, to) ==
    AppendInst(InsertAtEnd(Fn, name, StoreInst(Fn.next, BogusOp, dummyVar)),
               name, "br", <<>>, <<to>>)

\* fake.loop.header: the counter phi, the comparison with 10, the branch.
FakeLoopHeader(Fn, E, H, B, X) ==
    AppendInst(
        AppendInst(
            AppendInst(Fn, H, "phi", <<ConstOp(0)>>, <<E>>),
            H, "icmp_slt", <<InstOp(Fn.next), ConstOp(10)>>, <<>>),
        H, "condbr", <<InstOp(Fn.next + 1)>>, <<B, X>>)

\* fake.loop.body: fake.inc, the store, the phi's second incoming value, the
\* branch back.
FakeLoopBody(Fn, H, B, dummyVar) ==
    StoreAndBr(
        addIncoming(AppendInst(Fn, B, "add",
                               <<InstOp(GetBlock(Fn, H).insts[1].id), ConstOp(1)>>, <<>>),
                    GetBlock(Fn, H).insts[1].id, InstOp(Fn.next), B),
        B, dummyVar, H)

FakeLoopNames(Fn) ==
    <<FreshName(Fn, "fake.loop.entry"), FreshName(Fn, "fake.loop.header"),
      FreshName(Fn, "fake.loop.body"), FreshName(Fn, "fake.loop.exit")>>

insertFakeLoop(Fn, After, dummyVar) ==
    LET nm == FakeLoopNames(Fn)
        OrigSuccessor == getTerminator(GetBlock(Fn, After)).bbs[1]
    IN  AppendInst(
            FakeLoopBody(
                FakeLoopHeader(
                    AppendInst(
                        RedirectToFake(CreateBlocks(Fn, nm, 1), After, nm[1],
                                       OrigSuccessor),
                        nm[1], "br", <<>>, <<nm[2]>>),
                    nm[1], nm[2], nm[3], nm[4]),
                nm[2], nm[3], dummyVar),
            nm[4], "br", <<>>, <<OrigSuccessor>>)

FakeConditionalNames(Fn) ==
    <<FreshName(Fn, "fake.then"), FreshName(Fn, "fake.else"),
      FreshName(Fn, "fake.merge")>>

insertFakeConditional(Fn, After, dummyVar) ==
    LET nm == FakeConditionalNames(Fn)
        OrigSuccessor == getTerminator(GetBlock(Fn, After)).bbs[1]
    IN  AppendInst(
            StoreAndBr(
                StoreAndBr(
                    RedirectToFake(CreateBlocks(Fn, nm, 1), After, nm[1],
                                   OrigSuccessor),
                    nm[1], dummyVar, nm[3]),
                nm[2], dummyVar, nm[3]),
            nm[3], "br", <<>>, <<OrigSuccessor>>)

FakeBlockNames(Fn) == <<FreshName(Fn, "fake.block")>>

insertFakeBlock(Fn, After, dummyVar) ==
    LET nm == FakeBlockNames(Fn)
        OrigSuccessor == getTerminator(GetBlock(Fn, After)).bbs[1]
    IN  StoreAndBr(
            RedirectToFake(CreateBlocks(Fn, nm, 1), After, nm[1], OrigSuccessor),
            nm[1], dummyVar, OrigSuccessor)

\* Instruction::getNumSuccessors
getNumSuccessors(T) == Len(T.bbs)

\* The candidate blocks of addFakeCodeToFunction, in function order: one
\* successor, and no phi at the front of that successor.
candidateBlocksOf(Fn) ==
    LET ok == SelectSeq(Fn.blocks,
                LAMBDA B : /\ getNumSuccessors(getTerminator(B)) = 1
                           /\ GetBlock(Fn, getTerminator(B).bbs[1]).insts[1].op # "phi")
    IN  [j \in DOMAIN ok |-> ok[j].name]

-----------------------------------------------------------------------------
(* FakeCodeInsertionPass::run and MultiCycleObfuscationPass::run            *)

\* The decrypt stub as a function of the module, as injectDecryptionStub
\* builds it; the fake-code pass passes over it like over any function.
StubFunction(key) ==
    [blocks |->
        <<Block("entry", <<Inst(0, "br", <<>>, <<"loop_header">>)>>),
          Block("loop_header",
                <<Inst(1, "phi", <<ConstOp(0), InstOp(9)>>, <<"entry", "loop_body">>),
                  Inst(2, "icmp_slt", <<InstOp(1), ArgOp>>, <<>>),
                  Inst(3, "condbr", <<InstOp(2)>>, <<"loop_body", "loop_exit">>)>>),
          Block("loop_body",
                <<Inst(4, "getelementptr", <<ArgOp, InstOp(1)>>, <<>>),
                  Inst(5, "loadbyte", <<InstOp(4)>>, <<>>),
                  Inst(6, "xor", <<InstOp(5), ConstOp(key)>>, <<>>),
                  Inst(7, "getelementptr", <<ArgOp, InstOp(1)>>, <<>>),
                  Inst(8, "storebyte", <<InstOp(6), InstOp(7)>>, <<>>),
                  Inst(9, "add", <<InstOp(1), ConstOp(1)>>, <<>>),
                  Inst(10, "br", <<>>, <<"loop_header">>)>>),
          Block("loop_exit", <<Inst(11, "ret", <<>>, <<>>)>>)>>,
     next |-> 12, decl |-> FALSE, intrinsic |-> FALSE]

\* A function of four blocks in a row: three of them are candidates.
Row ==
    GenFunction(4, [b \in 0..3 |->
                      IF b = 3 THEN [k |-> "ret", t |-> <<>>]
                      ELSE [k |-> "br", t |-> <<b + 1>>]], NoOverlay)

\* Three blocks in a row with a phi at the front of the second.
RowWithPhi ==
    GenFunction(3, [b \in 0..2 |->
                      IF b = 2 THEN [k |-> "ret", t |-> <<>>]
                      ELSE [k |-> "br", t |-> <<b + 1>>]],
                [kind |-> "phi", d |-> 1, u |-> 2, mode |-> "const"])

\* The modules the fake-code pass is run on: one function each.
FakeModules ==
    {<<f>> : f \in {Declaration(FALSE), SingleBlock, Straight, Chain, Row, RowWithPhi}}

InitMC ==
    /\ ver = "chakra"
    /\ FM0 \in FakeModules
    /\ FM = FM0
    /\ fk = FkIdle
    /\ Report = ReportData
    /\ \E n \in 0..MaxCycles :
          /\ n * Len(candidateBlocksOf(FM0[1])) <= MaxWork
          /\ mc = [pc |-> "start", Cycle |-> 0, NumCycles |-> n]
    /\ SM0 \in {ModuleOf(<<>>, <<>>), OneGlobal(".str", <<65>>, TRUE, <<"inst">>)}
    /\ SM = SM0
    /\ gepKind = "inst"
    /\ runs = <<>>
    /\ CFFIdle
    /\ StubIdle

\* run up to the loop: R.cyclesRequested = NumCycles.
MCBegin ==
    /\ mc.pc = "start"
    /\ Report' = [Report EXCEPT !.cyclesRequested = mc.NumCycles]
    /\ mc' = [mc EXCEPT !.pc = "loop", !.Cycle = 0]
    /\ UNCHANGED <<ver, FM0, FM, fk, cffvars, sevars, stubvars>>

\* Cycle == 0: StringEncryptionPass::run on the module; the stub it injects
\* is a function of the module from then on.
MCStringEncryption ==
    /\ mc.pc = "loop" /\ mc.Cycle < mc.NumCycles /\ mc.Cycle = 0
    /\ \E key \in Keys :
          /\ SM' = StringEncryptionRun(SM, key, ver, gepKind).Mod
          /\ runs' = Append(runs, RunRecord(key, StringEncryptionRun(SM, key, ver, gepKind), SM))
          /\ FM' = IF Len(DecryptStubs(StringEncryptionRun(SM, key, ver, gepKind).Mod))
                        > Len(DecryptStubs(SM))
                   THEN Append(FM, StubFunction(key)) ELSE FM
    /\ Report' = [Report EXCEPT !.enableStringEncryption = TRUE,
                                !.passesRun = Append(@, "StringEncrypt")]
    /\ mc' = [mc EXCEPT !.pc = "fake"]
    /\ UNCHANGED <<ver, FM0, fk, SM0, gepKind, cffvars, stubvars>>

\* FakeCodeInsertionPass::run up to its loop over the functions.
FkRun ==
    /\ \/ mc.pc = "fake"
       \/ mc.pc = "loop" /\ mc.Cycle < mc.NumCycles /\ mc.Cycle # 0
    /\ fk' = [fk EXCEPT !.pc = "function", !.f = 1, !.Changed = FALSE, !.PA = ""]
    /\ Report' = [Report EXCEPT !.enableFakeCodeInsertion = TRUE,
                                !.passesRun = Append(@, "FakeCodeInsertion")]
    /\ mc' = [mc EXCEPT !.pc = "infake"]
    /\ UNCHANGED <<ver, FM0, FM, cffvars, sevars, stubvars>>

\* addFakeCodeToFunction on a declaration or a function without blocks:
\* return false.
FkSkipFunction ==
    /\ fk.pc = "function" /\ fk.f <= Len(FM)
    /\ FM[fk.f].decl \/ FM[fk.f].blocks = <<>>
    /\ fk' = [fk EXCEPT !.f = fk.f + 1]
    /\ UNCHANGED <<ver, FM0, FM, Report, mc, cffvars, sevars, stubvars>>

\* The function with dummy.var at the entry's first insertion point.
WithDummyVar(Fn) ==
    InsertAtFirstInsertionPt(Fn, getEntryBlock(Fn).name,
                             Inst(Fn.next, "alloca", <<>>, <<>>))

\* addFakeCodeToFunction on a function without candidate blocks: dummy.var
\* is created, return false.
FkNoCandidates ==
    /\ fk.pc = "function" /\ fk.f <= Len(FM)
    /\ ~(FM[fk.f].decl \/ FM[fk.f].blocks = <<>>)
    /\ candidateBlocksOf(WithDummyVar(FM[fk.f])) = <<>>
    /\ FM' = [FM EXCEPT ![fk.f] = WithDummyVar(FM[fk.f])]
    /\ fk' = [fk EXCEPT !.f = fk.f + 1]
    /\ UNCHANGED <<ver, FM0, Report, mc, cffvars, sevars, stubvars>>

\* min of two numbers
Min(a, b) == IF a < b THEN a ELSE b

\* addFakeCodeToFunction up to the first loop: dummy.var, the candidate
\* blocks, numLoops from a draw of loopDist.
FkCollect ==
    /\ fk.pc = "function" /\ fk.f <= Len(FM)
    /\ ~(FM[fk.f].decl \/ FM[fk.f].blocks = <<>>)
    /\ candidateBlocksOf(WithDummyVar(FM[fk.f])) # <<>>
    /\ FM' = [FM EXCEPT ![fk.f] = WithDummyVar(FM[fk.f])]
    /\ \E draw \in 1..MAX_FAKE_LOOPS_PER_FUNCTION :
          fk' = [fk EXCEPT
                   !.pc = "loops",
                   !.dummyVar = FM[fk.f].next,
                   !.candidateBlocks = candidateBlocksOf(WithDummyVar(FM[fk.f])),
                   !.num = Min(draw, Len(candidateBlocksOf(WithDummyVar(FM[fk.f]))) \div 3),
                   !.changed = FALSE,
                   !.i = 0]
    /\ UNCHANGED <<ver, FM0, Report, mc, cffvars, sevars, stubvars>>

\* One call of an insertion, as the log keeps it.
Insertion(f, block, kind, fakes, orig) ==
    [f |-> f, block |-> block, kind |-> kind, fakes |-> fakes, orig |-> orig]

\* One pass of a loop of addFakeCodeToFunction: picker draws pick, the
\* insertion is made at candidateBlocks[pick], which is erased from the
\* list.
Picked(pick, kind, names) ==
    [fk EXCEPT
        !.candidateBlocks = RemoveAt(fk.candidateBlocks, pick),
        !.i = fk.i + 1,
        !.changed = TRUE,
        !.log = Append(@, Insertion(fk.f, fk.candidateBlocks[pick], kind, names,
                    getTerminator(GetBlock(FM[fk.f], fk.candidateBlocks[pick])).bbs[1]))]

\* for (i < numLoops && !candidateBlocks.empty()): insertFakeLoop, with a
\* draw of the number of bogus operations.
FkInsertLoop ==
    /\ fk.pc = "loops" /\ fk.i < fk.num /\ fk.candidateBlocks # <<>>
    /\ \E pick \in DOMAIN fk.candidateBlocks :
          /\ FM' = [FM EXCEPT ![fk.f] =
                        insertFakeLoop(FM[fk.f], fk.candidateBlocks[pick], fk.dummyVar)]
          /\ fk' = Picked(pick, "loop", FakeLoopNames(FM[fk.f]))
    /\ \E numBogusInstr \in {5, 15} :
          Report' = [Report EXCEPT
                        !.fakeLoopsInserted = @ + 1,
                        !.totalBogusInstructions = @ + numBogusInstr + 4]
    /\ UNCHANGED <<ver, FM0, mc, cffvars, sevars, stubvars>>

\* After the first loop: numConds from a draw of condDist.
FkLoopsDone ==
    /\ fk.pc = "loops" /\ ~(fk.i < fk.num /\ fk.candidateBlocks # <<>>)
    /\ \E draw \in 1..MAX_FAKE_CONDITIONALS_PER_FUNCTION :
          fk' = [fk EXCEPT !.pc = "conds", !.i = 0,
                           !.num = Min(draw, Len(fk.candidateBlocks) \div 2)]
    /\ UNCHANGED <<ver, FM0, FM, Report, mc, cffvars, sevars, stubvars>>

\* for (i < numConds && !candidateBlocks.empty()): insertFakeConditional.
FkInsertConditional ==
    /\ fk.pc = "conds" /\ fk.i < fk.num /\ fk.candidateBlocks # <<>>
    /\ \E pick \in DOMAIN fk.candidateBlocks :
          /\ FM' = [FM EXCEPT ![fk.f] =
                        insertFakeConditional(FM[fk.f], fk.candidateBlocks[pick],
                                              fk.dummyVar)]
          /\ fk' = Picked(pick, "conditional", FakeConditionalNames(FM[fk.f]))
    /\ \E numInstr \in {3, 10} :
          Report' = [Report EXCEPT
                        !.fakeConditionalsInserted = @ + 1,
                        !.totalBogusInstructions = @ + 2 * numInstr + 5]
    /\ UNCHANGED <<ver, FM0, mc, cffvars, sevars, stubvars>>

\* After the second loop: numBlocks from a draw of blockDist.
FkCondsDone ==
    /\ fk.pc = "conds" /\ ~(fk.i < fk.num /\ fk.candidateBlocks # <<>>)
    /\ \E draw \in 1..MAX_FAKE_BLOCKS_PER_FUNCTION :
          fk' = [fk EXCEPT !.pc = "blocks", !.i = 0,
                           !.num = Min(draw, Len(fk.candidateBlocks))]
    /\ UNCHANGED <<ver, FM0, FM, Report, mc, cffvars, sevars, stubvars>>

\* for (i < numBlocks && !candidateBlocks.empty()): insertFakeBlock.
FkInsertBlock ==
    /\ fk.pc = "blocks" /\ fk.i < fk.num /\ fk.candidateBlocks # <<>>
    /\ \E pick \in DOMAIN fk.candidateBlocks :
          /\ FM' = [FM EXCEPT ![fk.f] =
                        insertFakeBlock(FM[fk.f], fk.candidateBlocks[pick], fk.dummyVar)]
          /\ fk' = Picked(pick, "block", FakeBlockNames(FM[fk.f]))
    /\ \E numInstr \in {5, MAX_FAKE_INSTRUCTIONS_PER_BLOCK} :
          Report' = [Report EXCEPT
                        !.fakeCodeBlocksInserted = @ + 1,
                        !.totalBogusInstructions = @ + numInstr + 2]
    /\ UNCHANGED <<ver, FM0, mc, cffvars, sevars, stubvars>>

\* addFakeCodeToFunction returns changed; run sets Changed if it is true and
\* goes to the next function.
FkBlocksDone ==
    /\ fk.pc = "blocks" /\ ~(fk.i < fk.num /\ fk.candidateBlocks # <<>>)
    /\ fk' = [fk EXCEPT
                !.pc = "function", !.f = fk.f + 1,
                !.Changed = fk.Changed \/ fk.changed]
    /\ UNCHANGED <<ver, FM0, FM, Report, mc, cffvars, sevars, stubvars>>

\* After the loop over the functions: PreservedAnalyses::none() if Changed,
\* else all(); back in MultiCycleObfuscationPass::run.
FkReturn ==
    /\ fk.pc = "function" /\ fk.f > Len(FM)
    /\ fk' = [fk EXCEPT !.pc = "idle", !.PA = IF fk.Changed THEN "none" ELSE "all"]
    /\ mc' = [mc EXCEPT !.pc = "cycleend"]
    /\ UNCHANGED <<ver, FM0, FM, Report, cffvars, sevars, stubvars>>

\* The end of the loop body: R.cyclesCompleted = Cycle + 1; ++Cycle.
MCCycleEnd ==
    /\ mc.pc = "cycleend"
    /\ Report' = [Report EXCEPT !.cyclesCompleted = mc.Cycle + 1]
    /\ mc' = [mc EXCEPT !.pc = "loop", !.Cycle = mc.Cycle + 1]
    /\ UNCHANGED <<ver, FM0, FM, fk, cffvars, sevars, stubvars>>

\* Cycle < NumCycles is false: return PreservedAnalyses::none().
MCReturn ==
    /\ mc.pc = "loop" /\ ~(mc.Cycle < mc.NumCycles)
    /\ mc' = [mc EXCEPT !.pc = "done"]
    /\ UNCHANGED <<ver, FM0, FM, fk, Report, cffvars, sevars, stubvars>>

NextMC ==
    \/ MCBegin \/ MCStringEncryption \/ FkRun \/ FkSkipFunction
    \/ FkNoCandidates \/ FkCollect \/ FkInsertLoop \/ FkLoopsDone
    \/ FkInsertConditional \/ FkCondsDone \/ FkInsertBlock \/ FkBlocksDone
    \/ FkReturn \/ MCCycleEnd \/ MCReturn

SpecMC == InitMC /\ [][NextMC]_vars

MCReturned == mc.pc = "done"

-----------------------------------------------------------------------------
(* Properties of fake-code insertion *)

\* The fake blocks of function f: the blocks the insertions made so far
\* created in it.
FakeBlocksOf(f) ==
    UNION {Range(fk.log[j].fakes) : j \in {x \in DOMAIN fk.log : fk.log[x].f = f}}

\* The terminator T is  br false, Fake, Orig.
IsFalseBranch(T, Fake, Orig) ==
    /\ T.op = "condbr"
    /\ T.ops = <<ConstOp(0)>>
    /\ T.bbs = <<Fake, Orig>>

\* Every branch into a fake block of function f from a block that is not
\* fake is the br false of an insertion, and that insertion's candidate
\* block still ends in it.
EnteredThroughFalseBranch(f) ==
    /\ \A j \in DOMAIN fk.log :
          fk.log[j].f = f =>
              IsFalseBranch(getTerminator(GetBlock(FM[f], fk.log[j].block)),
                            fk.log[j].fakes[1], fk.log[j].orig)
    /\ \A b \in DOMAIN FM[f].blocks :
          LET B == FM[f].blocks[b]
              T == getTerminator(B)
          IN  (B.name \notin FakeBlocksOf(f)
                 /\ \E k \in DOMAIN T.bbs : T.bbs[k] \in FakeBlocksOf(f))
              => \E j \in DOMAIN fk.log :
                    /\ fk.log[j].f = f /\ fk.log[j].block = B.name
                    /\ IsFalseBranch(T, fk.log[j].fakes[1], fk.log[j].orig)

\* No execution of function f visits a fake block, and every execution
\* visits the blocks, makes the calls and returns the value of the function
\* as it was handed to the pass.
FakeCodeNeverRuns(f) ==
    \A arg \in 0..MaxArg :
        /\ Range(Observe(FM[f], arg).trace) \cap FakeBlocksOf(f) = {}
        /\ Observe(FM[f], arg) = Observe(FM0[f], arg)

\* C26: every fake loop, conditional and block is entered only through a
\* br false whose false successor is the candidate block's original
\* successor; no fake block is ever executed and every candidate block still
\* goes to its original successor; no candidate block gets two insertions.
C26_FakeCodeIsDead ==
    /\ \A f \in DOMAIN FM0 :
          ~(FM[f].decl \/ FM[f].blocks = <<>>) =>
              /\ EnteredThroughFalseBranch(f)
              /\ FakeCodeNeverRuns(f)
    /\ \A j \in DOMAIN fk.log :
          /\ fk.log[j].block \in BlockNames(FM0[fk.log[j].f]) =>
                getTerminator(GetBlock(FM0[fk.log[j].f], fk.log[j].block)).bbs
                    = <<fk.log[j].orig>>
          /\ \A k \in DOMAIN fk.log :
                (k # j /\ fk.log[k].f = fk.log[j].f)
                    => fk.log[k].block # fk.log[j].block

\* C26's case: the pass has returned after it inserted a fake loop, a fake
\* conditional and a fake block into one function.
C26_Witness ==
    /\ MCReturned
    /\ \E f \in DOMAIN FM0 :
          \A kind \in {"loop", "conditional", "block"} :
              \E j \in DOMAIN fk.log : fk.log[j].f = f /\ fk.log[j].kind = kind

-----------------------------------------------------------------------------
(* Properties of the multi-cycle pass *)

\* The passes a run with n cycles is to run, in order: string encryption
\* once, in the first cycle, before that cycle's fake-code insertion, and
\* fake-code insertion in every cycle.
PassesOfCycles(n) ==
    <<"StringEncrypt">> \o [j \in 1..n |-> "FakeCodeInsertion"]

\* C30: when run with NumCycles = n returns, string encryption has run
\* exactly once, in the first cycle and before its fake-code insertion,
\* fake-code insertion has run once per cycle, and the report's
\* cyclesCompleted and cyclesRequested are both n; for every n >= 0.
C30_CyclesRunAndReported ==
    MCReturned =>
        /\ Report.passesRun = PassesOfCycles(mc.NumCycles)
        /\ Len(runs) = 1
        /\ Report.cyclesRequested = mc.NumCycles
        /\ Report.cyclesCompleted = mc.NumCycles

=============================================================================
